---- MODULE Spec2Model ----
(***************************************************************************)
(* Contract Assistant: the client application state held by AppProvider    *)
(* (project form, generated report, saved reports, localStorage), the      *)
(* template report generator, the GPT response parser and the report API   *)
(* handlers (generateReport, saveReport, deleteReport, getSavedReports)    *)
(* over the reports table.                                                 *)
(***************************************************************************)
EXTENDS Integers, Sequences, FiniteSets, TLC

(***************************************************************************)
(* Bounds of the model.                                                    *)
(***************************************************************************)
MaxIssues == 2      \* longest issues sequence the form is grown to
MaxTime == 2        \* last clock millisecond (the clock starts at 1)
MaxSegs == 3        \* most segments a generated response text is built from

(***************************************************************************)
(* Values.                                                                 *)
(***************************************************************************)
NULL == [null |-> TRUE]

\* String.prototype.trim on the strings of the model: whitespace-only
\* strings trim to the empty string, the others have no outer whitespace.
trim(s) == IF s \in {"", " "} THEN "" ELSE s

\* Texts typed into one issue field.
IssueTexts == {"", "late payment"}

\* Partial records passed to updateProjectDetails.
DetailInputs ==
  { [projectName |-> "Tower", projectDescription |-> "Office block",
     contractType |-> "JCT Standard Building Contract",
     organizationRole |-> "Main Contractor"],
    [projectName |-> " "],
    [contractType |-> ""] }

\* Authenticated users of the API; NoUser is a request without a session.
Users == {"u1", "u2"}
NoUser == "anonymous"
\* The user logged in to the browser that runs AppProvider.
AppUser == "u1"

VARIABLES
  projectDetails,     \* AppProvider state: the project form
  report,             \* AppProvider state: the generated report or NULL
  savedReports,       \* AppProvider state: the saved reports list
  isGeneratingReport, \* AppProvider state (API variant)
  storage,            \* localStorage item 'savedReports' (parsed)
  validationErrors,   \* ProjectDetailsForm state: set of failing field keys
  alertMsg,           \* text of the last window.alert
  now,                \* the clock read by Date.now()
  responseText,       \* the completion text handed to the response parser
  table,              \* rows of the reports table, in insertion order
  req,                \* per user: the API request being handled
  resp,               \* the last response sent by an API handler
  fetched,            \* the response the pending fetch of AppProvider got
  openaiApiKey,       \* whether process.env.OPENAI_API_KEY is set
  draftCommunication, \* AppProvider state: the draft letter or NULL
  call,               \* the parser call under test: function name and arguments
  result,             \* what that call returned, or NoResult before it ran
  selectedReport,     \* ReportView state: the loaded saved report or NULL
  showDraft,          \* ReportView state: the draft-letter pane is shown
  showSavedReports,   \* ReportView state: the saved reports list is shown
  shouldGenerateLetter, \* AppProvider state: the answer to the letter prompt or NULL
  isGenerating,       \* ReportView state: a 'New Report' request is pending
  isSubmitting,       \* ProjectDetailsForm state: a submit is pending
  isGeneratingLetter, \* AppProvider state (API variant)
  reportRequests,     \* the generateReport fetches in flight, oldest first
  letterRequests,     \* the generateLetter fetches in flight, oldest first
  hasConsented,       \* AppProvider state: the disclaimer was accepted
  location,           \* the router's current path
  exitMessage         \* DisclaimerPage: the exit message is visible

formVars == <<projectDetails, validationErrors>>
listVars == <<savedReports, storage>>
clientVars == <<projectDetails, validationErrors, report, isGeneratingReport,
                savedReports, storage, alertMsg>>
serverVars == <<table, req, resp, fetched, openaiApiKey>>
viewVars == <<selectedReport, showDraft, showSavedReports, shouldGenerateLetter>>
busyVars == <<isGenerating, isSubmitting, isGeneratingLetter, reportRequests,
              letterRequests>>
routeVars == <<hasConsented, location, exitMessage>>
uiVars == <<viewVars, busyVars, routeVars>>
restVars == <<responseText, draftCommunication, call, result, uiVars>>
vars == <<projectDetails, validationErrors, report, isGeneratingReport,
          savedReports, storage, alertMsg, now, responseText,
          table, req, resp, fetched, openaiApiKey,
          draftCommunication, call, result,
          selectedReport, showDraft, showSavedReports, shouldGenerateLetter,
          isGenerating, isSubmitting, isGeneratingLetter, reportRequests,
          letterRequests, hasConsented, location, exitMessage>>

(***************************************************************************)
(* AppProvider: initial state.                                             *)
(***************************************************************************)
InitialProjectDetails ==
  [projectName |-> "", projectDescription |-> "", contractType |-> "",
   organizationRole |-> "", issues |-> <<[description |-> "", actionsTaken |-> ""]>>]

ClientInit ==
  /\ projectDetails = InitialProjectDetails
  /\ report = NULL
  /\ savedReports = <<>>
  /\ storage = <<>>
  /\ isGeneratingReport = FALSE
  /\ validationErrors = {}
  /\ alertMsg = ""

\* ReportView, ProjectDetailsForm and AppProvider (API variant) after
\* construction; shouldGenerateLetter is "null" until the prompt was answered
ViewInit ==
  /\ selectedReport = NULL
  /\ showDraft = FALSE
  /\ showSavedReports = FALSE
  /\ shouldGenerateLetter = "null"
  /\ isGenerating = FALSE
  /\ isSubmitting = FALSE
  /\ isGeneratingLetter = FALSE
  /\ reportRequests = <<>>
  /\ letterRequests = <<>>

\* the router at the disclaimer page, consent not given
RouteInit ==
  /\ hasConsented = FALSE
  /\ location = "/"
  /\ exitMessage = FALSE

\* the disclaimer was accepted: DisclaimerPage.handleAccept has run
RouteAccepted ==
  /\ hasConsented = TRUE
  /\ location = "/project"
  /\ exitMessage = FALSE

(***************************************************************************)
(* Form state operations.                                                  *)
(***************************************************************************)
\* { ...prev, ...details }
Merge(prev, details) ==
  [f \in DOMAIN prev |-> IF f \in DOMAIN details THEN details[f] ELSE prev[f]]

updateProjectDetails(details) ==
  /\ projectDetails' = Merge(projectDetails, details)
  /\ UNCHANGED <<validationErrors, report, isGeneratingReport, listVars, alertMsg,
                  now, restVars, serverVars>>

addIssue ==
  /\ Len(projectDetails.issues) < MaxIssues
  /\ projectDetails' = [projectDetails EXCEPT !.issues =
                          Append(@, [description |-> "", actionsTaken |-> ""])]
  /\ UNCHANGED <<validationErrors, report, isGeneratingReport, listVars, alertMsg,
                  now, restVars, serverVars>>

\* updateIssue writing through to the issues array shared with the report
updateIssueInPlace(index, field, value) ==
  /\ index \in 1..Len(projectDetails.issues)
  /\ projectDetails' = [projectDetails EXCEPT !.issues[index][field] = value]
  /\ report' = IF report # NULL /\ index <= Len(report.projectDetails.issues)
                 THEN [report EXCEPT !.projectDetails.issues[index][field] = value]
                 ELSE report
  /\ UNCHANGED <<validationErrors, isGeneratingReport, listVars, alertMsg,
                  now, restVars, serverVars>>

\* index is the 1-based position of the issue (index + 1 of the code)
updateIssue(index, field, value) ==
  /\ index \in 1..Len(projectDetails.issues)
  /\ projectDetails' = [projectDetails EXCEPT !.issues[index][field] = value]
  /\ UNCHANGED <<validationErrors, report, isGeneratingReport, listVars, alertMsg,
                  now, restVars, serverVars>>

\* a filter that drops the issues equal to the one at index
FilterOutValue(s, index) == SelectSeq(s, LAMBDA e : e # s[index])

\* prev.issues.filter((_, i) => i !== index)
FilterOutIndex(s, index) ==
  [j \in 1..(Len(s) - 1) |-> IF j < index THEN s[j] ELSE s[j + 1]]

\* the Remove button is rendered only while isRemovable (more than one issue)
removeIssue(index) ==
  /\ Len(projectDetails.issues) > 1
  /\ index \in 1..Len(projectDetails.issues)
  /\ projectDetails' = [projectDetails EXCEPT !.issues = FilterOutIndex(@, index)]
  /\ UNCHANGED <<validationErrors, report, isGeneratingReport, listVars, alertMsg,
                  now, restVars, serverVars>>

(***************************************************************************)
(* ProjectDetailsForm: validation of the required fields.                  *)
(***************************************************************************)
\* keys of the errors object built by validateForm / handleSubmit
validateForm(pd) ==
  (IF trim(pd.projectName) = "" THEN {"projectName"} ELSE {})
  \cup (IF trim(pd.projectDescription) = "" THEN {"projectDescription"} ELSE {})
  \cup (IF pd.contractType = "" THEN {"contractType"} ELSE {})
  \cup (IF pd.organizationRole = "" THEN {"organizationRole"} ELSE {})
  \cup { "issue_" \o ToString(i - 1) \o "_description" :
           i \in { j \in 1..Len(pd.issues) : trim(pd.issues[j].description) = "" } }

(***************************************************************************)
(* Saved reports and their persistence in localStorage.                    *)
(***************************************************************************)
SeqToSet(s) == { s[i] : i \in 1..Len(s) }

RECURSIVE FilterSeq(_, _)
\* Array.prototype.filter with the test "id differs from reportId"
FilterSeq(s, reportId) ==
  IF s = <<>> THEN <<>>
  ELSE IF Head(s).id # reportId
         THEN <<Head(s)>> \o FilterSeq(Tail(s), reportId)
         ELSE FilterSeq(Tail(s), reportId)

\* saveCurrentReport without the check for an existing id
saveCurrentReportAppend(prev, r) == Append(prev, r)

\* the updater passed to setSavedReports by saveCurrentReport
saveCurrentReport(prev, r) ==
  IF \E i \in 1..Len(prev) : prev[i].id = r.id
    THEN [i \in 1..Len(prev) |-> IF prev[i].id = r.id THEN r ELSE prev[i]]
    ELSE Append(prev, r)

\* the updater passed to setSavedReports by deleteSavedReport
deleteSavedReport(prev, reportId) == FilterSeq(prev, reportId)

\* useEffect on [savedReports]: localStorage.setItem inside try/catch; a
\* throwing write (quota, disabled storage) is logged and leaves the item
persistEffect(list, writeOk) ==
  storage' = IF writeOk THEN list ELSE storage

\* ReportView.handleSaveReport: the Save button is shown for the current report
handleSaveReport(writeOk) ==
  /\ report # NULL
  /\ savedReports' = saveCurrentReport(savedReports, report)
  /\ alertMsg' = "Report saved successfully"
  /\ persistEffect(savedReports', writeOk)
  /\ UNCHANGED <<formVars, report, isGeneratingReport, now, restVars, serverVars>>

\* ReportView.handleDeleteReport after the confirm dialog
handleDeleteReport(reportId, writeOk) ==
  /\ savedReports' = deleteSavedReport(savedReports, reportId)
  /\ persistEffect(savedReports', writeOk)
  /\ UNCHANGED <<formVars, report, isGeneratingReport, alertMsg, now,
                  restVars, serverVars>>

\* the clock advances by one millisecond
Tick ==
  /\ now < MaxTime
  /\ now' = now + 1
  /\ UNCHANGED <<clientVars, restVars, serverVars>>

(***************************************************************************)
(* Response texts.  A text is a sequence of one-character strings.         *)
(***************************************************************************)
Segments ==
  { <<"I","S","S","U","E"," ","1",":">>,     \* "ISSUE 1:"
    <<"I","s","s","u","e","2",":">>,         \* "Issue2:"
    <<"I","s","s","u","e",":">>,             \* "Issue:" (no number)
    <<"a","b","c">>,
    <<" ">> }

RECURSIVE TextsOf(_)
TextsOf(n) ==
  IF n = 0 THEN { <<>> }
  ELSE LET shorter == TextsOf(n - 1) IN
       shorter \cup { t \o g : t \in shorter, g \in Segments }

Texts == TextsOf(MaxSegs)

\* String.prototype.toLowerCase on one character; also the case folding of
\* the /i flag
toLowerCase(c) ==
  CASE c = "A" -> "a" [] c = "B" -> "b" [] c = "C" -> "c" [] c = "D" -> "d"
    [] c = "E" -> "e" [] c = "F" -> "f" [] c = "G" -> "g" [] c = "H" -> "h"
    [] c = "I" -> "i" [] c = "J" -> "j" [] c = "K" -> "k" [] c = "L" -> "l"
    [] c = "M" -> "m" [] c = "N" -> "n" [] c = "O" -> "o" [] c = "P" -> "p"
    [] c = "Q" -> "q" [] c = "R" -> "r" [] c = "S" -> "s" [] c = "T" -> "t"
    [] c = "U" -> "u" [] c = "V" -> "v" [] c = "W" -> "w" [] c = "X" -> "x"
    [] c = "Y" -> "y" [] c = "Z" -> "z"
    [] OTHER -> c

isSpace(c) == c \in {" ", "\n", "\t"}
isDigit(c) == c \in {"0", "1", "2", "3", "4", "5", "6", "7", "8", "9"}

\* String.prototype.trim on a text
RECURSIVE trimStart(_)
trimStart(t) == IF t # <<>> /\ isSpace(Head(t)) THEN trimStart(Tail(t)) ELSE t
RECURSIVE trimEnd(_)
trimEnd(t) ==
  IF t # <<>> /\ isSpace(t[Len(t)]) THEN trimEnd(SubSeq(t, 1, Len(t) - 1)) ELSE t
trimText(t) == trimEnd(trimStart(t))

\* text.substring(startPos, endPos) with 0-based positions: a position
\* outside the text is moved to its nearest end, and the two are swapped
\* when startPos is the larger
substring(t, startPos, endPos) ==
  LET clamp(p) == IF p < 0 THEN 0 ELSE IF p > Len(t) THEN Len(t) ELSE p
      a == clamp(startPos)
      b == clamp(endPos)
  IN IF a <= b THEN SubSeq(t, a + 1, b) ELSE SubSeq(t, b + 1, a)

\* the literal words the alternatives of issueRegex start with, in order
MarkerWords ==
  << <<"i","s","s","u","e">>,
     <<"i","s","s","u","e">>,
     <<"a","n","a","l","y","s","i","s"," ","f","o","r"," ","i","s","s","u","e">>,
     <<"r","e","g","a","r","d","i","n","g"," ","i","s","s","u","e">> >>

\* first 0-based position >= p whose character is not in the class
RECURSIVE skipWhile(_, _, _)
skipWhile(t, p, digits) ==
  IF p < Len(t) /\ (IF digits THEN isDigit(t[p + 1]) ELSE isSpace(t[p + 1]))
    THEN skipWhile(t, p + 1, digits)
    ELSE p

\* end position of a match of  word \s* \d+ :  starting at 0-based p, or -1
matchAlternative(t, p, word) ==
  IF /\ p + Len(word) <= Len(t)
     /\ \A k \in 1..Len(word) : toLowerCase(t[p + k]) = word[k]
  THEN LET afterWs == skipWhile(t, p + Len(word), FALSE)
           afterDigits == skipWhile(t, afterWs, TRUE)
       IN IF afterDigits > afterWs /\ afterDigits < Len(t) /\ t[afterDigits + 1] = ":"
            THEN afterDigits + 1
            ELSE -1
  ELSE -1

\* end position of the match of issueRegex at p (first alternative that matches)
matchIssueRegex(t, p) ==
  LET hits == { a \in 1..Len(MarkerWords) : matchAlternative(t, p, MarkerWords[a]) # -1 } IN
  IF hits = {} THEN -1
  ELSE matchAlternative(t, p, MarkerWords[CHOOSE a \in hits : \A b \in hits : a <= b])

\* [...text.matchAll(issueRegex)]: the 0-based index of every match
RECURSIVE matchAll(_, _)
matchAll(t, p) ==
  LET hits == { q \in p..(Len(t) - 1) : matchIssueRegex(t, q) # -1 } IN
  IF hits = {} THEN <<>>
  ELSE LET q == CHOOSE x \in hits : \A y \in hits : x <= y IN
       <<q>> \o matchAll(t, matchIssueRegex(t, q))

(***************************************************************************)
(* Strings as texts.  Chars gives the characters of the strings the        *)
(* substring tests of the code are applied to.                             *)
(***************************************************************************)
Chars(s) ==
  CASE s = "" -> <<>>
    [] s = "Client/Employer" -> <<"C","l","i","e","n","t","/","E","m","p","l","o","y","e","r">>
    [] s = "Client Representative" -> <<"C","l","i","e","n","t"," ","R","e","p","r","e","s","e","n","t","a","t","i","v","e">>
    [] s = "Project Sponsor" -> <<"P","r","o","j","e","c","t"," ","S","p","o","n","s","o","r">>
    [] s = "Architect" -> <<"A","r","c","h","i","t","e","c","t">>
    [] s = "Contract Administrator" -> <<"C","o","n","t","r","a","c","t"," ","A","d","m","i","n","i","s","t","r","a","t","o","r">>
    [] s = "Project Manager" -> <<"P","r","o","j","e","c","t"," ","M","a","n","a","g","e","r">>
    [] s = "Quantity Surveyor" -> <<"Q","u","a","n","t","i","t","y"," ","S","u","r","v","e","y","o","r">>
    [] s = "Engineer" -> <<"E","n","g","i","n","e","e","r">>
    [] s = "Principal Designer" -> <<"P","r","i","n","c","i","p","a","l"," ","D","e","s","i","g","n","e","r">>
    [] s = "CDM Coordinator" -> <<"C","D","M"," ","C","o","o","r","d","i","n","a","t","o","r">>
    [] s = "Employer's Agent" -> <<"E","m","p","l","o","y","e","r","'","s"," ","A","g","e","n","t">>
    [] s = "Main Contractor" -> <<"M","a","i","n"," ","C","o","n","t","r","a","c","t","o","r">>
    [] s = "Design and Build Contractor" -> <<"D","e","s","i","g","n"," ","a","n","d"," ","B","u","i","l","d"," ","C","o","n","t","r","a","c","t","o","r">>
    [] s = "Principal Contractor" -> <<"P","r","i","n","c","i","p","a","l"," ","C","o","n","t","r","a","c","t","o","r">>
    [] s = "Construction Manager" -> <<"C","o","n","s","t","r","u","c","t","i","o","n"," ","M","a","n","a","g","e","r">>
    [] s = "Management Contractor" -> <<"M","a","n","a","g","e","m","e","n","t"," ","C","o","n","t","r","a","c","t","o","r">>
    [] s = "Domestic Sub-contractor" -> <<"D","o","m","e","s","t","i","c"," ","S","u","b","-","c","o","n","t","r","a","c","t","o","r">>
    [] s = "Nominated Sub-contractor" -> <<"N","o","m","i","n","a","t","e","d"," ","S","u","b","-","c","o","n","t","r","a","c","t","o","r">>
    [] s = "Named Sub-contractor" -> <<"N","a","m","e","d"," ","S","u","b","-","c","o","n","t","r","a","c","t","o","r">>
    [] s = "Specialist Sub-contractor" -> <<"S","p","e","c","i","a","l","i","s","t"," ","S","u","b","-","c","o","n","t","r","a","c","t","o","r">>
    [] s = "Material/Equipment Supplier" -> <<"M","a","t","e","r","i","a","l","/","E","q","u","i","p","m","e","n","t"," ","S","u","p","p","l","i","e","r">>
    [] s = "Specialist Supplier" -> <<"S","p","e","c","i","a","l","i","s","t"," ","S","u","p","p","l","i","e","r">>
    [] s = "Consultant" -> <<"C","o","n","s","u","l","t","a","n","t">>
    [] s = "Legal Advisor" -> <<"L","e","g","a","l"," ","A","d","v","i","s","o","r">>
    [] s = "Other" -> <<"O","t","h","e","r">>
    [] s = "Client" -> <<"C","l","i","e","n","t">>
    [] s = "Employer" -> <<"E","m","p","l","o","y","e","r">>
    [] s = "Contractor" -> <<"C","o","n","t","r","a","c","t","o","r">>
    [] s = "Sub-contractor" -> <<"S","u","b","-","c","o","n","t","r","a","c","t","o","r">>
    [] s = "The Contractor" -> <<"T","h","e"," ","C","o","n","t","r","a","c","t","o","r">>
    [] s = "The Employer/Client" -> <<"T","h","e"," ","E","m","p","l","o","y","e","r","/","C","l","i","e","n","t">>
    [] s = "The Main Contractor" -> <<"T","h","e"," ","M","a","i","n"," ","C","o","n","t","r","a","c","t","o","r">>
    [] s = "The Relevant Party" -> <<"T","h","e"," ","R","e","l","e","v","a","n","t"," ","P","a","r","t","y">>
    [] s = "The Contract Administrator" -> <<"T","h","e"," ","C","o","n","t","r","a","c","t"," ","A","d","m","i","n","i","s","t","r","a","t","o","r">>
    [] s = "Detailed Analysis" -> <<"D","e","t","a","i","l","e","d"," ","A","n","a","l","y","s","i","s">>
    [] s = "Legal Context" -> <<"L","e","g","a","l"," ","C","o","n","t","e","x","t">>
    [] s = "Relevant Contract Clauses" -> <<"R","e","l","e","v","a","n","t"," ","C","o","n","t","r","a","c","t"," ","C","l","a","u","s","e","s">>
    [] s = "Clause Explanations" -> <<"C","l","a","u","s","e"," ","E","x","p","l","a","n","a","t","i","o","n","s">>
    [] s = "Recommendations" -> <<"R","e","c","o","m","m","e","n","d","a","t","i","o","n","s">>
    [] s = "Potential Outcomes" -> <<"P","o","t","e","n","t","i","a","l"," ","O","u","t","c","o","m","e","s">>
    [] s = "Timeline Suggestions" -> <<"T","i","m","e","l","i","n","e"," ","S","u","g","g","e","s","t","i","o","n","s">>
    [] s = "Risk Assessment" -> <<"R","i","s","k"," ","A","s","s","e","s","s","m","e","n","t">>
    [] s = "JCT" -> <<"J","C","T">>
    [] s = "payment" -> <<"p","a","y","m","e","n","t">>
    [] s = "Clause 4.8" -> <<"C","l","a","u","s","e"," ","4",".","8">>
    [] s = "Clause 4.9" -> <<"C","l","a","u","s","e"," ","4",".","9">>
    [] s = "Clause 4.10" -> <<"C","l","a","u","s","e"," ","4",".","1","0">>
    [] s = "Clause 4.11" -> <<"C","l","a","u","s","e"," ","4",".","1","1">>
    [] s = "delay" -> <<"d","e","l","a","y">>
    [] s = "Clause 2.26" -> <<"C","l","a","u","s","e"," ","2",".","2","6">>
    [] s = "Clause 2.27" -> <<"C","l","a","u","s","e"," ","2",".","2","7">>
    [] s = "Clause 2.28" -> <<"C","l","a","u","s","e"," ","2",".","2","8">>
    [] s = "Clause 2.29" -> <<"C","l","a","u","s","e"," ","2",".","2","9">>
    [] s = "variation" -> <<"v","a","r","i","a","t","i","o","n">>
    [] s = "Clause 3.14" -> <<"C","l","a","u","s","e"," ","3",".","1","4">>
    [] s = "Clause 3.15" -> <<"C","l","a","u","s","e"," ","3",".","1","5">>
    [] s = "Clause 3.16" -> <<"C","l","a","u","s","e"," ","3",".","1","6">>
    [] s = "Clause 5.6" -> <<"C","l","a","u","s","e"," ","5",".","6">>
    [] s = "defect" -> <<"d","e","f","e","c","t">>
    [] s = "Clause 2.38" -> <<"C","l","a","u","s","e"," ","2",".","3","8">>
    [] s = "Clause 2.39" -> <<"C","l","a","u","s","e"," ","2",".","3","9">>
    [] s = "Clause 2.40" -> <<"C","l","a","u","s","e"," ","2",".","4","0">>
    [] s = "Clause 3.18" -> <<"C","l","a","u","s","e"," ","3",".","1","8">>
    [] s = "Clause 1.7" -> <<"C","l","a","u","s","e"," ","1",".","7">>
    [] s = "Clause 2.1" -> <<"C","l","a","u","s","e"," ","2",".","1">>
    [] s = "Clause 8.4" -> <<"C","l","a","u","s","e"," ","8",".","4">>
    [] s = "Clause 8.9" -> <<"C","l","a","u","s","e"," ","8",".","9">>
    [] s = "NEC" -> <<"N","E","C">>
    [] s = "Clause 50.1" -> <<"C","l","a","u","s","e"," ","5","0",".","1">>
    [] s = "Clause 51.1" -> <<"C","l","a","u","s","e"," ","5","1",".","1">>
    [] s = "Clause 51.2" -> <<"C","l","a","u","s","e"," ","5","1",".","2">>
    [] s = "Clause 51.3" -> <<"C","l","a","u","s","e"," ","5","1",".","3">>
    [] s = "Clause 60.1" -> <<"C","l","a","u","s","e"," ","6","0",".","1">>
    [] s = "Clause 61.3" -> <<"C","l","a","u","s","e"," ","6","1",".","3">>
    [] s = "Clause 62.2" -> <<"C","l","a","u","s","e"," ","6","2",".","2">>
    [] s = "Clause 63.3" -> <<"C","l","a","u","s","e"," ","6","3",".","3">>
    [] s = "Clause 60.1(1)" -> <<"C","l","a","u","s","e"," ","6","0",".","1","(","1",")">>
    [] s = "Clause 61.2" -> <<"C","l","a","u","s","e"," ","6","1",".","2">>
    [] s = "Clause 63.1" -> <<"C","l","a","u","s","e"," ","6","3",".","1">>
    [] s = "Clause 63.7" -> <<"C","l","a","u","s","e"," ","6","3",".","7">>
    [] s = "Clause 40.1" -> <<"C","l","a","u","s","e"," ","4","0",".","1">>
    [] s = "Clause 42.1" -> <<"C","l","a","u","s","e"," ","4","2",".","1">>
    [] s = "Clause 43.1" -> <<"C","l","a","u","s","e"," ","4","3",".","1">>
    [] s = "Clause 44.1" -> <<"C","l","a","u","s","e"," ","4","4",".","1">>
    [] s = "Clause 10.1" -> <<"C","l","a","u","s","e"," ","1","0",".","1">>
    [] s = "Clause 15.1" -> <<"C","l","a","u","s","e"," ","1","5",".","1">>
    [] s = "Clause 91.1" -> <<"C","l","a","u","s","e"," ","9","1",".","1">>
    [] s = "Clause 93.1" -> <<"C","l","a","u","s","e"," ","9","3",".","1">>
    [] s = "General Contract Provisions" -> <<"G","e","n","e","r","a","l"," ","C","o","n","t","r","a","c","t"," ","P","r","o","v","i","s","i","o","n","s">>
    [] s = "Specific Terms of Agreement" -> <<"S","p","e","c","i","f","i","c"," ","T","e","r","m","s"," ","o","f"," ","A","g","r","e","e","m","e","n","t">>
    [] s = "Implied Terms" -> <<"I","m","p","l","i","e","d"," ","T","e","r","m","s">>
    [] s = "Payment Terms" -> <<"P","a","y","m","e","n","t"," ","T","e","r","m","s">>
    [] s = "Seek professional legal advice specific to your contract situation." -> <<"S","e","e","k"," ","p","r","o","f","e","s","s","i","o","n","a","l"," ","l","e","g","a","l"," ","a","d","v","i","c","e"," ","s","p","e","c","i","f","i","c"," ","t","o"," ","y","o","u","r"," ","c","o","n","t","r","a","c","t"," ","s","i","t","u","a","t","i","o","n",".">>
    [] s = "late payment" -> <<"l","a","t","e"," ","p","a","y","m","e","n","t">>
    [] s = "defects" -> <<"d","e","f","e","c","t","s">>
    [] s = " " -> <<" ">>
    [] s = "notice sent" -> <<"n","o","t","i","c","e"," ","s","e","n","t">>
    [] s = "Tower" -> <<"T","o","w","e","r">>
    [] s = "Office block" -> <<"O","f","f","i","c","e"," ","b","l","o","c","k">>
    [] s = "Bridge" -> <<"B","r","i","d","g","e">>
    [] s = "Footbridge" -> <<"F","o","o","t","b","r","i","d","g","e">>
    [] s = "JCT Standard Building Contract" -> <<"J","C","T"," ","S","t","a","n","d","a","r","d"," ","B","u","i","l","d","i","n","g"," ","C","o","n","t","r","a","c","t">>
    [] s = "NEC4" -> <<"N","E","C","4">>
    [] s = "NEC4 Engineering and Construction Contract (ECC)" -> <<"N","E","C","4"," ","E","n","g","i","n","e","e","r","i","n","g"," ","a","n","d"," ","C","o","n","s","t","r","u","c","t","i","o","n"," ","C","o","n","t","r","a","c","t"," ","(","E","C","C",")">>
    [] s = "FIDIC" -> <<"F","I","D","I","C">>
    [] s = "quality" -> <<"q","u","a","l","i","t","y">>
    [] s = "design" -> <<"d","e","s","i","g","n">>
    [] s = "change" -> <<"c","h","a","n","g","e">>
    [] s = "extra work" -> <<"e","x","t","r","a"," ","w","o","r","k">>
    [] s = "specification" -> <<"s","p","e","c","i","f","i","c","a","t","i","o","n">>
    [] s = "drawing" -> <<"d","r","a","w","i","n","g">>
    [] s = "workmanship" -> <<"w","o","r","k","m","a","n","s","h","i","p">>
    [] s = "late" -> <<"l","a","t","e">>
    [] s = "overdue" -> <<"o","v","e","r","d","u","e">>
    [] s = "dispute" -> <<"d","i","s","p","u","t","e">>
    [] s = "disagree" -> <<"d","i","s","a","g","r","e","e">>
    [] s = "loss" -> <<"l","o","s","s">>
    [] s = "expense" -> <<"e","x","p","e","n","s","e">>
    [] s = "cost" -> <<"c","o","s","t">>
    [] s = "liquidated" -> <<"l","i","q","u","i","d","a","t","e","d">>
    [] s = "damages" -> <<"d","a","m","a","g","e","s">>
    [] s = "instruct" -> <<"i","n","s","t","r","u","c","t">>
    [] s = "authoriz" -> <<"a","u","t","h","o","r","i","z">>
    [] s = "authoris" -> <<"a","u","t","h","o","r","i","s">>
    [] s = "extension" -> <<"e","x","t","e","n","s","i","o","n">>
    [] s = "time" -> <<"t","i","m","e">>
    [] s = "rectif" -> <<"r","e","c","t","i","f">>
    [] s = "remed" -> <<"r","e","m","e","d">>
    [] s = "repair" -> <<"r","e","p","a","i","r">>
    [] s = "approval" -> <<"a","p","p","r","o","v","a","l">>
    [] s = "review" -> <<"r","e","v","i","e","w">>
    [] s = "coordination" -> <<"c","o","o","r","d","i","n","a","t","i","o","n">>
    [] s = "contractor design" -> <<"c","o","n","t","r","a","c","t","o","r"," ","d","e","s","i","g","n">>
    [] s = "Design and Build" -> <<"D","e","s","i","g","n"," ","a","n","d"," ","B","u","i","l","d">>
    [] s = "Payment" -> <<"P","a","y","m","e","n","t">>
    [] s = "roof" -> <<"r","o","o","f">>
    [] s = "FIDIC Red Book (Construction)" -> <<"F","I","D","I","C"," ","R","e","d"," ","B","o","o","k"," ","(","C","o","n","s","t","r","u","c","t","i","o","n",")">>
    [] s = "Bespoke Contract" -> <<"B","e","s","p","o","k","e"," ","C","o","n","t","r","a","c","t">>
    [] s = "JCT Design and Build Contract" -> <<"J","C","T"," ","D","e","s","i","g","n"," ","a","n","d"," ","B","u","i","l","d"," ","C","o","n","t","r","a","c","t">>
    [] s = "Clause 4.12" -> <<"C","l","a","u","s","e"," ","4",".","1","2">>
    [] s = "Clause 4.13" -> <<"C","l","a","u","s","e"," ","4",".","1","3">>
    [] s = "Clause 2.25" -> <<"C","l","a","u","s","e"," ","2",".","2","5">>
    [] s = "Clause 5.7" -> <<"C","l","a","u","s","e"," ","5",".","7">>
    [] s = "Clause 2.2" -> <<"C","l","a","u","s","e"," ","2",".","2">>
    [] s = "Clause 2.17" -> <<"C","l","a","u","s","e"," ","2",".","1","7">>
    [] s = "Clause 3.21" -> <<"C","l","a","u","s","e"," ","3",".","2","1">>
    [] s = "Clause 50.2" -> <<"C","l","a","u","s","e"," ","5","0",".","2">>
    [] s = "Clause 50.3" -> <<"C","l","a","u","s","e"," ","5","0",".","3">>
    [] s = "Clause 63.5" -> <<"C","l","a","u","s","e"," ","6","3",".","5">>
    [] s = "Clause 60.1(4)" -> <<"C","l","a","u","s","e"," ","6","0",".","1","(","4",")">>
    [] s = "Clause 45.1" -> <<"C","l","a","u","s","e"," ","4","5",".","1">>
    [] s = "Clause 21.1" -> <<"C","l","a","u","s","e"," ","2","1",".","1">>
    [] s = "Clause 21.2" -> <<"C","l","a","u","s","e"," ","2","1",".","2">>
    [] s = "Clause 27.1" -> <<"C","l","a","u","s","e"," ","2","7",".","1">>
    [] s = "Option X15 (if applicable)" -> <<"O","p","t","i","o","n"," ","X","1","5"," ","(","i","f"," ","a","p","p","l","i","c","a","b","l","e",")">>
    [] s = "Clause 14.3" -> <<"C","l","a","u","s","e"," ","1","4",".","3">>
    [] s = "Clause 14.6" -> <<"C","l","a","u","s","e"," ","1","4",".","6">>
    [] s = "Clause 14.7" -> <<"C","l","a","u","s","e"," ","1","4",".","7">>
    [] s = "Clause 14.8" -> <<"C","l","a","u","s","e"," ","1","4",".","8">>
    [] s = "Clause 14.9" -> <<"C","l","a","u","s","e"," ","1","4",".","9">>
    [] s = "Clause 8.5" -> <<"C","l","a","u","s","e"," ","8",".","5">>
    [] s = "Clause 20.1" -> <<"C","l","a","u","s","e"," ","2","0",".","1">>
    [] s = "Clause 3.5" -> <<"C","l","a","u","s","e"," ","3",".","5">>
    [] s = "Clause 4.24" -> <<"C","l","a","u","s","e"," ","4",".","2","4">>
    [] s = "Clause 13.1" -> <<"C","l","a","u","s","e"," ","1","3",".","1">>
    [] s = "Clause 13.2" -> <<"C","l","a","u","s","e"," ","1","3",".","2">>
    [] s = "Clause 13.3" -> <<"C","l","a","u","s","e"," ","1","3",".","3">>
    [] s = "Clause 12.3" -> <<"C","l","a","u","s","e"," ","1","2",".","3">>
    [] s = "Clause 12.4" -> <<"C","l","a","u","s","e"," ","1","2",".","4">>
    [] s = "Clause 7.5" -> <<"C","l","a","u","s","e"," ","7",".","5">>
    [] s = "Clause 7.6" -> <<"C","l","a","u","s","e"," ","7",".","6">>
    [] s = "Clause 9.1" -> <<"C","l","a","u","s","e"," ","9",".","1">>
    [] s = "Clause 11.1" -> <<"C","l","a","u","s","e"," ","1","1",".","1">>
    [] s = "Clause 11.2" -> <<"C","l","a","u","s","e"," ","1","1",".","2">>
    [] s = "Clause 4.1" -> <<"C","l","a","u","s","e"," ","4",".","1">>
    [] s = "Clause 5.1" -> <<"C","l","a","u","s","e"," ","5",".","1">>
    [] s = "Clause 5.2" -> <<"C","l","a","u","s","e"," ","5",".","2">>
    [] s = "Clause 5.8" -> <<"C","l","a","u","s","e"," ","5",".","8">>
    [] s = "Clause 1.9" -> <<"C","l","a","u","s","e"," ","1",".","9">>
    [] s = "Variation and Change Provisions" -> <<"V","a","r","i","a","t","i","o","n"," ","a","n","d"," ","C","h","a","n","g","e"," ","P","r","o","v","i","s","i","o","n","s">>
    [] s = "To:" -> <<"T","o",":">>
    [] s = "Subject:" -> <<"S","u","b","j","e","c","t",":">>
    [] s = "Dear" -> <<"D","e","a","r">>
    [] s = "Re:" -> <<"R","e",":">>
    [] s = "Yours sincerely" -> <<"Y","o","u","r","s"," ","s","i","n","c","e","r","e","l","y">>
    [] s = "Yours faithfully" -> <<"Y","o","u","r","s"," ","f","a","i","t","h","f","u","l","l","y">>
    [] s = "Regards" -> <<"R","e","g","a","r","d","s">>
    [] s = "Kind regards" -> <<"K","i","n","d"," ","r","e","g","a","r","d","s">>
    [] s = "Best regards" -> <<"B","e","s","t"," ","r","e","g","a","r","d","s">>
    [] s = "Yours truly" -> <<"Y","o","u","r","s"," ","t","r","u","l","y">>
    [] s = "Yours faithfully," -> <<"Y","o","u","r","s"," ","f","a","i","t","h","f","u","l","l","y",",">>
    [] s = "Contract Notice" -> <<"C","o","n","t","r","a","c","t"," ","N","o","t","i","c","e">>
    [] s = "[NAME]" -> <<"[","N","A","M","E","]">>
    [] s = "[POSITION]" -> <<"[","P","O","S","I","T","I","O","N","]">>
    [] s = "[COMPANY]" -> <<"[","C","O","M","P","A","N","Y","]">>
    [] s = "REF:" -> <<"R","E","F",":">>
    [] s = "Date:" -> <<"D","a","t","e",":">>
    [] s = "1 May 2025" -> <<"1"," ","M","a","y"," ","2","0","2","5">>
    [] s = "To: The Architect" -> <<"T","o",":"," ","T","h","e"," ","A","r","c","h","i","t","e","c","t">>
    [] s = "Subject: Notice" -> <<"S","u","b","j","e","c","t",":"," ","N","o","t","i","c","e">>
    [] s = "Dear Sir," -> <<"D","e","a","r"," ","S","i","r",",">>
    [] s = "Dear Ms Smith" -> <<"D","e","a","r"," ","M","s"," ","S","m","i","t","h">>
    [] s = "Dear ," -> <<"D","e","a","r"," ",",">>
    [] s = "Please pay." -> <<"P","l","e","a","s","e"," ","p","a","y",".">>
    [] s = "Yours sincerely," -> <<"Y","o","u","r","s"," ","s","i","n","c","e","r","e","l","y",",">>
    [] s = "J Doe" -> <<"J"," ","D","o","e">>
    [] s = "Director" -> <<"D","i","r","e","c","t","o","r">>
    [] s = "10.1" -> <<"1","0",".","1">>
    [] s = "13.1" -> <<"1","3",".","1">>
    [] s = "13.2" -> <<"1","3",".","2">>
    [] s = "13.3" -> <<"1","3",".","3">>
    [] s = "14" -> <<"1","4">>
    [] s = "15" -> <<"1","5">>
    [] s = "16" -> <<"1","6">>
    [] s = "19" -> <<"1","9">>
    [] s = "2.26" -> <<"2",".","2","6">>
    [] s = "2.27" -> <<"2",".","2","7">>
    [] s = "2.28" -> <<"2",".","2","8">>
    [] s = "2.29" -> <<"2",".","2","9">>
    [] s = "2.30" -> <<"2",".","3","0">>
    [] s = "2.31" -> <<"2",".","3","1">>
    [] s = "2.38" -> <<"2",".","3","8">>
    [] s = "2.39" -> <<"2",".","3","9">>
    [] s = "2.40" -> <<"2",".","4","0">>
    [] s = "2.5" -> <<"2",".","5">>
    [] s = "20.1" -> <<"2","0",".","1">>
    [] s = "3.14" -> <<"3",".","1","4">>
    [] s = "3.15" -> <<"3",".","1","5">>
    [] s = "3.16" -> <<"3",".","1","6">>
    [] s = "3.5" -> <<"3",".","5">>
    [] s = "30" -> <<"3","0">>
    [] s = "31" -> <<"3","1">>
    [] s = "32" -> <<"3","2">>
    [] s = "4.1" -> <<"4",".","1">>
    [] s = "4.10" -> <<"4",".","1","0">>
    [] s = "4.11" -> <<"4",".","1","1">>
    [] s = "4.12" -> <<"4",".","1","2">>
    [] s = "4.13" -> <<"4",".","1","3">>
    [] s = "4.2" -> <<"4",".","2">>
    [] s = "4.21" -> <<"4",".","2","1">>
    [] s = "4.22" -> <<"4",".","2","2">>
    [] s = "4.23" -> <<"4",".","2","3">>
    [] s = "4.8" -> <<"4",".","8">>
    [] s = "4.9" -> <<"4",".","9">>
    [] s = "40" -> <<"4","0">>
    [] s = "41" -> <<"4","1">>
    [] s = "42" -> <<"4","2">>
    [] s = "43" -> <<"4","3">>
    [] s = "50" -> <<"5","0">>
    [] s = "51" -> <<"5","1">>
    [] s = "6.4" -> <<"6",".","4">>
    [] s = "6.5" -> <<"6",".","5">>
    [] s = "60" -> <<"6","0">>
    [] s = "61" -> <<"6","1">>
    [] s = "62" -> <<"6","2">>
    [] s = "63" -> <<"6","3">>
    [] s = "7" -> <<"7">>
    [] s = "8.10" -> <<"8",".","1","0">>
    [] s = "8.11" -> <<"8",".","1","1">>
    [] s = "8.4" -> <<"8",".","4">>
    [] s = "8.5" -> <<"8",".","5">>
    [] s = "8.9" -> <<"8",".","9">>
    [] s = "9" -> <<"9">>
    [] s = "91" -> <<"9","1">>
    [] s = "92" -> <<"9","2">>
    [] s = "93" -> <<"9","3">>
    [] s = "arbitration" -> <<"a","r","b","i","t","r","a","t","i","o","n">>
    [] s = "Payment has not been certified on time" -> <<"P","a","y","m","e","n","t"," ","h","a","s"," ","n","o","t"," ","b","e","e","n"," ","c","e","r","t","i","f","i","e","d"," ","o","n"," ","t","i","m","e">>
    [] s = "Payment delay" -> <<"P","a","y","m","e","n","t"," ","d","e","l","a","y">>
    [] s = "delay Payment" -> <<"d","e","l","a","y"," ","P","a","y","m","e","n","t">>
    [] s = "design defect" -> <<"d","e","s","i","g","n"," ","d","e","f","e","c","t">>
    [] s = "defect design" -> <<"d","e","f","e","c","t"," ","d","e","s","i","g","n">>
    [] s = "variation delay" -> <<"v","a","r","i","a","t","i","o","n"," ","d","e","l","a","y">>
    [] s = "Clause 4.8 sets the dates" -> <<"C","l","a","u","s","e"," ","4",".","8"," ","s","e","t","s"," ","t","h","e"," ","d","a","t","e","s">>
    [] s = "Clause 4.9 gives the notices" -> <<"C","l","a","u","s","e"," ","4",".","9"," ","g","i","v","e","s"," ","t","h","e"," ","n","o","t","i","c","e","s">>
    [] s = "Do X" -> <<"D","o"," ","X">>

\* String.prototype.indexOf(word, from) on texts: 0-based position or -1
indexOf(t, word, from) ==
  LET hits == { p \in from..(Len(t) - Len(word)) :
                  \A k \in 1..Len(word) : t[p + k] = word[k] }
  IN IF hits = {} THEN -1 ELSE CHOOSE p \in hits : \A q \in hits : p <= q

\* String.prototype.includes(word)
includes(t, word) == indexOf(t, word, 0) # -1

\* role.includes('...') on the role strings of the form
roleIncludes(role, word) == includes(Chars(role), Chars(word))

(***************************************************************************)
(* Section and list extraction (api/generateReport.js).                    *)
(***************************************************************************)
\* the character classes \s, \d, [A-Z], [a-z] of the regular expressions
SpaceChars == {" ", "\n", "\t"}
DigitChars == {"0", "1", "2", "3", "4", "5", "6", "7", "8", "9"}
UpperChars ==
  {"A","B","C","D","E","F","G","H","I","J","K","L","M",
   "N","O","P","Q","R","S","T","U","V","W","X","Y","Z"}
LowerChars ==
  {"a","b","c","d","e","f","g","h","i","j","k","l","m",
   "n","o","p","q","r","s","t","u","v","w","x","y","z"}
isUpper(c) == c \in UpperChars
isLower(c) == c \in LowerChars
\* the class of listItemRegex: a digit, the bullet U+2022 (written "@" in
\* the texts of the model), "-" or "*"
BulletChars == DigitChars \cup {"@", "-", "*"}
isBullet(c) == c \in BulletChars

\* first 0-based position >= p whose character fails the test
RECURSIVE skipClass(_, _, _)
skipClass(t, p, class) ==
  IF p < Len(t) /\ t[p + 1] \in class THEN skipClass(t, p + 1, class) ELSE p

\* the lookahead that ends a section body at position q:
\*   \n\s*\d+\.\s*[A-Z] | \n\s*[A-Z][a-z]+\s*[A-Z][a-z]+ | \n\s*$ | $
sectionEnd(t, q) ==
  \/ q = Len(t)
  \/ /\ q < Len(t) /\ t[q + 1] = "\n"
     /\ LET w == skipClass(t, q + 1, SpaceChars) IN
        \/ LET d == skipClass(t, w, DigitChars) IN
           /\ d > w
           /\ d < Len(t) /\ t[d + 1] = "."
           /\ LET u == skipClass(t, d + 1, SpaceChars) IN
              u < Len(t) /\ isUpper(t[u + 1])
        \/ /\ w < Len(t) /\ isUpper(t[w + 1])
           /\ LET l == skipClass(t, w + 1, LowerChars) IN
              /\ l > w + 1
              /\ LET u == skipClass(t, l, SpaceChars) IN
                 /\ u < Len(t) /\ isUpper(t[u + 1])
                 /\ u + 1 < Len(t) /\ isLower(t[u + 2])
        \/ w = Len(t)

\* a section match that takes the whole text when the name is absent
sectionMatchLoose(t, sectionName, colon) == [matched |-> TRUE, group |-> t]

\* text.match(sectionRegex): the regex with the optional colon (colon = TRUE)
\* or altSectionRegex; group is match[1].  The name is matched at its first
\* occurrence, whitespace and the colon greedily, the body lazily up to the
\* first position where the lookahead holds.
sectionMatch(t, sectionName, colon) ==
  LET i == indexOf(t, sectionName, 0) IN
  IF i = -1 THEN [matched |-> FALSE, group |-> <<>>]
  ELSE LET p1 == skipClass(t, i + Len(sectionName), SpaceChars)
           p2 == IF colon /\ p1 < Len(t) /\ t[p1 + 1] = ":" THEN p1 + 1 ELSE p1
           p3 == IF colon THEN skipClass(t, p2, SpaceChars) ELSE p1
           q == CHOOSE e \in p3..Len(t) :
                  sectionEnd(t, e) /\ \A f \in p3..(e - 1) : ~sectionEnd(t, f)
       IN [matched |-> TRUE, group |-> substring(t, p3, q)]

\* content.split(/\n\s*\n/)[0]
firstParagraph(content) ==
  LET breaks == { j \in 0..(Len(content) - 1) :
                    /\ content[j + 1] = "\n"
                    /\ \E k \in (j + 1)..(skipClass(content, j + 1, SpaceChars) - 1) :
                         content[k + 1] = "\n" }
  IN IF breaks = {} THEN content
     ELSE substring(content, 0, CHOOSE j \in breaks : \A k \in breaks : j <= k)

extractSection(text, sectionName, allowMultiParagraph) ==
  LET match == sectionMatch(text, sectionName, TRUE)
      altMatch == sectionMatch(text, sectionName, FALSE)
      found == IF match.matched /\ match.group # <<>> THEN match ELSE altMatch
  IN IF found.matched /\ found.group # <<>>
       THEN LET content == trimText(found.group) IN
            IF allowMultiParagraph THEN content
            ELSE trimText(firstParagraph(content))
       ELSE <<>>

\* one match of listItemRegex starting at position st of content, where
\* st = 0 or content[st] is a newline:
\*   (?:^|\n)\s*(?:[\d@\-\*]+\.?\s*|\-\s+)(.*?)(?=\n\s*(?:[\d@\-\*]+\.?\s*|\-\s+)|$)
itemStartsAt(c, st) ==
  /\ st = 0 \/ (st < Len(c) /\ c[st + 1] = "\n")
  /\ LET w == skipClass(c, st, SpaceChars) IN w < Len(c) /\ isBullet(c[w + 1])

itemEnd(c, e) ==
  \/ e = Len(c)
  \/ /\ e < Len(c) /\ c[e + 1] = "\n"
     /\ LET w == skipClass(c, e + 1, SpaceChars) IN w < Len(c) /\ isBullet(c[w + 1])

itemMatch(c, st) ==
  LET w == skipClass(c, st, SpaceChars)
      m == skipClass(c, w, BulletChars)
      d == IF m < Len(c) /\ c[m + 1] = "." THEN m + 1 ELSE m
      s == skipClass(c, d, SpaceChars)
      e == CHOOSE x \in s..Len(c) : itemEnd(c, x) /\ \A y \in s..(x - 1) : ~itemEnd(c, y)
  IN [group |-> substring(c, s, e), end |-> e]

\* [...content.matchAll(listItemRegex)].map(m => m[1].trim())
RECURSIVE listMatches(_, _)
listMatches(c, p) ==
  LET starts == { st \in p..Len(c) : itemStartsAt(c, st) } IN
  IF starts = {} THEN <<>>
  ELSE LET st == CHOOSE x \in starts : \A y \in starts : x <= y
           m == itemMatch(c, st)
       IN <<trimText(m.group)>> \o listMatches(c, m.end)

\* content.split('\n')
RECURSIVE splitLines(_)
splitLines(c) ==
  LET i == indexOf(c, <<"\n">>, 0) IN
  IF i = -1 THEN <<c>>
  ELSE <<substring(c, 0, i)>> \o splitLines(substring(c, i + 1, Len(c)))

\* line.match(/^[\d@\-\*]+\.?\s*$/) on a trimmed line
bulletOnly(line) ==
  LET m == skipClass(line, 0, BulletChars)
      d == IF m < Len(line) /\ line[m + 1] = "." THEN m + 1 ELSE m
  IN m > 0 /\ skipClass(line, d, SpaceChars) = Len(line)

nonEmpty(item) == Len(item) > 0
keptLine(line) == Len(line) > 0 /\ ~bulletOnly(line)

\* the list extractor keeping only the first of equal items
RECURSIVE dedupe(_)
dedupe(items) ==
  IF items = <<>> THEN <<>>
  ELSE <<Head(items)>> \o dedupe(SelectSeq(Tail(items), LAMBDA x : x # Head(items)))

\* .filter(item => item.length > 0) of the list matches
keepItems(items) == SelectSeq(items, nonEmpty)

extractListItems(text, sectionName) ==
  LET match == sectionMatch(text, sectionName, TRUE) IN
  IF ~match.matched \/ match.group = <<>> THEN <<>>
  ELSE LET content == trimText(match.group)
           found == listMatches(content, 0)
       IN IF Len(found) > 0
            THEN keepItems(found)
            ELSE LET lines == splitLines(content) IN
                 SelectSeq([k \in 1..Len(lines) |-> trimText(lines[k])], keptLine)

(***************************************************************************)
(* GPT response parser (api/generateReport.js).                            *)
(***************************************************************************)
\* splitResponseByIssues slicing at the markers as soon as there is one
splitResponseAtAnyMarker(text, issueCount) ==
  LET matches == matchAll(text, 0) IN
  IF Len(matches) >= 1
    THEN [i \in 1..Len(matches) |->
            trimText(substring(text, matches[i],
                               IF i < Len(matches) THEN matches[i + 1] ELSE Len(text)))]
    ELSE LET approximateIssueLength == Len(text) \div issueCount IN
         [i \in 1..issueCount |->
            trimText(substring(text, (i - 1) * approximateIssueLength,
                               IF i = issueCount THEN Len(text)
                               ELSE i * approximateIssueLength))]

splitResponseByIssues(text, issueCount) ==
  LET matches == matchAll(text, 0) IN
  IF Len(matches) >= issueCount
    THEN [i \in 1..Len(matches) |->
            trimText(substring(text, matches[i],
                               IF i < Len(matches) THEN matches[i + 1] ELSE Len(text)))]
    ELSE LET approximateIssueLength == Len(text) \div issueCount IN
         [i \in 1..issueCount |->
            trimText(substring(text, (i - 1) * approximateIssueLength,
                               IF i = issueCount THEN Len(text)
                               ELSE i * approximateIssueLength))]

Min(a, b) == IF a < b THEN a ELSE b

\* issueDescription.toLowerCase() as a text
lowerText(t) == [k \in 1..Len(t) |-> toLowerCase(t[k])]

\* the clause names as texts
clauseList(names) == [k \in 1..Len(names) |-> Chars(names[k])]

\* a fallback that finds no clause
noFallbackClauses(contractType, issueDescription) == <<>>

generateFallbackClauses(contractType, issueDescription) ==
  LET issueKeywords == lowerText(Chars(issueDescription))
      has(word) == includes(issueKeywords, Chars(word))
  IN IF includes(Chars(contractType), Chars("JCT")) THEN
       IF has("payment") THEN clauseList(<<"Clause 4.8", "Clause 4.9", "Clause 4.10", "Clause 4.11">>)
       ELSE IF has("delay") THEN clauseList(<<"Clause 2.26", "Clause 2.27", "Clause 2.28", "Clause 2.29">>)
       ELSE IF has("variation") THEN clauseList(<<"Clause 3.14", "Clause 3.15", "Clause 3.16", "Clause 5.6">>)
       ELSE IF has("defect") THEN clauseList(<<"Clause 2.38", "Clause 2.39", "Clause 2.40", "Clause 3.18">>)
       ELSE clauseList(<<"Clause 1.7", "Clause 2.1", "Clause 8.4", "Clause 8.9">>)
     ELSE IF includes(Chars(contractType), Chars("NEC")) THEN
       IF has("payment") THEN clauseList(<<"Clause 50.1", "Clause 51.1", "Clause 51.2", "Clause 51.3">>)
       ELSE IF has("delay") THEN clauseList(<<"Clause 60.1", "Clause 61.3", "Clause 62.2", "Clause 63.3">>)
       ELSE IF has("variation") THEN clauseList(<<"Clause 60.1(1)", "Clause 61.2", "Clause 63.1", "Clause 63.7">>)
       ELSE IF has("defect") THEN clauseList(<<"Clause 40.1", "Clause 42.1", "Clause 43.1", "Clause 44.1">>)
       ELSE clauseList(<<"Clause 10.1", "Clause 15.1", "Clause 91.1", "Clause 93.1">>)
     ELSE clauseList(<<"General Contract Provisions", "Specific Terms of Agreement",
                       "Implied Terms", "Payment Terms">>)

\* the body of the forEach: the Analysis built from the response for one issue
issueAnalysis(responseForIssue, issue, pd) ==
  LET relevantClauses == extractListItems(responseForIssue, Chars("Relevant Contract Clauses"))
      recommendations == extractListItems(responseForIssue, Chars("Recommendations"))
  IN [issue |-> issue.description,
      actionsTaken |-> issue.actionsTaken,
      detailedAnalysis |-> extractSection(responseForIssue, Chars("Detailed Analysis"), TRUE),
      legalContext |-> extractSection(responseForIssue, Chars("Legal Context"), TRUE),
      relevantClauses |-> IF Len(relevantClauses) > 0 THEN relevantClauses
                          ELSE generateFallbackClauses(pd.contractType, issue.description),
      clauseExplanations |-> extractListItems(responseForIssue, Chars("Clause Explanations")),
      recommendations |-> IF Len(recommendations) > 0 THEN recommendations
                          ELSE <<Chars("Seek professional legal advice specific to your contract situation.")>>,
      potentialOutcomes |-> extractSection(responseForIssue, Chars("Potential Outcomes"), TRUE),
      timelineSuggestions |-> extractSection(responseForIssue, Chars("Timeline Suggestions"), TRUE),
      riskAssessment |-> extractSection(responseForIssue, Chars("Risk Assessment"), TRUE)]

\* the forEach skips an issue whose index is not below issueResponses.length
parseGptReportResponse(text, pd) ==
  LET issueResponses == IF Len(pd.issues) > 1
                          THEN splitResponseByIssues(text, Len(pd.issues))
                          ELSE <<text>>
  IN [i \in 1..Min(Len(pd.issues), Len(issueResponses)) |->
        issueAnalysis(issueResponses[i], pd.issues[i], pd)]

\* generatedReport of the handler
GptReport(text, pd, t) ==
  [id |-> ToString(t), date |-> t, projectDetails |-> pd,
   analysis |-> parseGptReportResponse(text, pd)]

(***************************************************************************)
(* The reports table (drizzle/schema.js) and the API handlers.             *)
(***************************************************************************)
Idle == [pc |-> "idle"]
NoResponse == [op |-> "none"]

ServerInit ==
  /\ table = <<>>
  /\ req = [u \in Users |-> Idle]
  /\ resp = NoResponse
  /\ fetched = NoResponse
  /\ openaiApiKey \in BOOLEAN

\* db.select().from(reports).where(eq(reports.id, id))
selectById(rows, id) == SelectSeq(rows, LAMBDA r : r.id = id)

\* the select of getSavedReports without its where clause
selectAllUsers(rows, userId) == rows

\* db.select().from(reports).where(eq(reports.userId, userId)).orderBy(createdAt)
selectByUser(rows, userId) == SelectSeq(rows, LAMBDA r : r.userId = userId)

\* db.insert(reports).values(row): id is the primary key, a second row with
\* the same id is refused and the statement throws
insertAllowed(rows, row) == \A i \in 1..Len(rows) : rows[i].id # row.id
insertRow(rows, row) == Append(rows, row)

\* db.update(reports).set({...}).where(eq(reports.id, id))
updateById(rows, id, r) ==
  [i \in 1..Len(rows) |->
     IF rows[i].id = id
       THEN [rows[i] EXCEPT !.projectDetails = r.projectDetails,
                            !.analysis = r.analysis, !.date = r.date]
       ELSE rows[i]]

\* db.delete(reports).where(and(eq(reports.id, id), eq(reports.userId, userId)))
deleteByIdAndUser(rows, id, userId) ==
  SelectSeq(rows, LAMBDA r : ~(r.id = id /\ r.userId = userId))

rowOf(r, userId) ==
  [id |-> r.id, userId |-> userId, date |-> r.date,
   projectDetails |-> r.projectDetails, analysis |-> r.analysis]

\* res.status(status).json(body) of the handler op answering the request of
\* u; app tells whether the request is the fetch of AppProvider, which then
\* resolves with this response
respondTo(u, op, status, body, app) ==
  /\ resp' = [user |-> u, op |-> op, status |-> status, body |-> body]
  /\ fetched' = IF app THEN [op |-> op, status |-> status, body |-> body] ELSE fetched
respond(u, op, status, body) == respondTo(u, op, status, body, req[u].app)

\* a well-formed projectDetails has its issues array and string fields;
\* buildReportPrompt throws on projectDetails.issues.map otherwise
wellFormed(pd) == "issues" \in DOMAIN pd

\* an authentication that refuses nobody
unauthorizedNever(user) == FALSE

\* const user = await authenticateUser(req); if (!user)
unauthorized(user) == user = NoUser

(*-------------------------- api/generateReport --------------------------*)
\* the request arrives: method, authentication, body and credential checks,
\* then the prompt is built and the completion is requested
generateReportReceive(u, method, user, pd, app) ==
  /\ req[u].pc = "idle"
  /\ user \in {u, NoUser}
  /\ IF method # "POST" THEN
       /\ respondTo(u, "generateReport", 405, NULL, app) /\ UNCHANGED req
     ELSE IF unauthorized(user) THEN
       /\ respondTo(u, "generateReport", 401, NULL, app) /\ UNCHANGED req
     ELSE IF pd = NULL THEN
       /\ respondTo(u, "generateReport", 400, NULL, app) /\ UNCHANGED req
     ELSE IF ~openaiApiKey THEN
       /\ respondTo(u, "generateReport", 400, NULL, app) /\ UNCHANGED req
     ELSE IF ~wellFormed(pd) THEN
       /\ respondTo(u, "generateReport", 500, NULL, app) /\ UNCHANGED req
     ELSE
       /\ req' = [req EXCEPT ![u] = [pc |-> "openai", projectDetails |-> pd, app |-> app]]
       /\ UNCHANGED <<resp, fetched>>
  /\ UNCHANGED <<table, openaiApiKey>>

\* openai.chat.completions.create rejects: the catch block answers
generateReportFailure(u, authorization) ==
  /\ req[u].pc = "openai"
  /\ respond(u, "generateReport", IF authorization THEN 401 ELSE 500, NULL)
  /\ req' = [req EXCEPT ![u] = Idle]
  /\ UNCHANGED <<table, openaiApiKey>>

\* the completion arrives: parse it, build generatedReport with Date.now()
generateReportCompletion(u, text) ==
  /\ req[u].pc = "openai"
  /\ req' = [req EXCEPT ![u] = [pc |-> "insert", app |-> req[u].app,
                                report |-> GptReport(text, req[u].projectDetails, now)]]
  /\ UNCHANGED <<table, resp, fetched, openaiApiKey>>

\* await db.insert(...) and the 200 answer, or the catch block
generateReportInsert(u) ==
  /\ req[u].pc = "insert"
  /\ LET row == rowOf(req[u].report, u) IN
     IF insertAllowed(table, row)
       THEN /\ table' = insertRow(table, row)
            /\ respond(u, "generateReport", 200, req[u].report)
       ELSE /\ UNCHANGED table
            /\ respond(u, "generateReport", 500, NULL)
  /\ req' = [req EXCEPT ![u] = Idle]
  /\ UNCHANGED openaiApiKey

(*---------------------------- api/saveReport ----------------------------*)
\* an ownership check that lets every caller through
notOwnerNever(existingReport, user) == FALSE

\* existingReport[0].userId !== user.id
notOwner(existingReport, user) == existingReport[1].userId # user

\* !report || !report.id || !report.projectDetails || !report.analysis
validReport(r) ==
  /\ r # NULL
  /\ "id" \in DOMAIN r /\ r.id # ""
  /\ "projectDetails" \in DOMAIN r
  /\ "analysis" \in DOMAIN r

\* through the select of the existing row and the ownership check
saveReportReceive(u, method, user, r) ==
  /\ req[u].pc = "idle"
  /\ user \in {u, NoUser}
  /\ IF method # "POST" THEN
       /\ respondTo(u, "saveReport", 405, NULL, FALSE) /\ UNCHANGED req
     ELSE IF unauthorized(user) THEN
       /\ respondTo(u, "saveReport", 401, NULL, FALSE) /\ UNCHANGED req
     ELSE IF ~validReport(r) THEN
       /\ respondTo(u, "saveReport", 400, NULL, FALSE) /\ UNCHANGED req
     ELSE LET existingReport == selectById(table, r.id) IN
       IF Len(existingReport) > 0
         THEN IF notOwner(existingReport, user)
                THEN /\ respondTo(u, "saveReport", 403, NULL, FALSE) /\ UNCHANGED req
                ELSE /\ req' = [req EXCEPT ![u] = [pc |-> "update", report |-> r, app |-> FALSE]]
                     /\ UNCHANGED <<resp, fetched>>
         ELSE /\ req' = [req EXCEPT ![u] = [pc |-> "saveInsert", report |-> r, app |-> FALSE]]
              /\ UNCHANGED <<resp, fetched>>
  /\ UNCHANGED <<table, openaiApiKey>>

\* await db.update(...).where(eq(reports.id, report.id)), then 200
saveReportUpdate(u) ==
  /\ req[u].pc = "update"
  /\ table' = updateById(table, req[u].report.id, req[u].report)
  /\ respond(u, "saveReport", 200, NULL)
  /\ req' = [req EXCEPT ![u] = Idle]
  /\ UNCHANGED openaiApiKey

\* await db.insert(...), then 200, or the catch block
saveReportInsert(u) ==
  /\ req[u].pc = "saveInsert"
  /\ LET row == rowOf(req[u].report, u) IN
     IF insertAllowed(table, row)
       THEN /\ table' = insertRow(table, row)
            /\ respond(u, "saveReport", 200, NULL)
       ELSE /\ UNCHANGED table
            /\ respond(u, "saveReport", 500, NULL)
  /\ req' = [req EXCEPT ![u] = Idle]
  /\ UNCHANGED openaiApiKey

(*--------------------------- api/deleteReport ---------------------------*)
deleteReportHandler(u, method, user, reportId) ==
  /\ user \in {u, NoUser}
  /\ IF method # "DELETE" THEN
       /\ respondTo(u, "deleteReport", 405, NULL, FALSE) /\ UNCHANGED table
     ELSE IF unauthorized(user) THEN
       /\ respondTo(u, "deleteReport", 401, NULL, FALSE) /\ UNCHANGED table
     ELSE IF reportId = "" THEN
       /\ respondTo(u, "deleteReport", 400, NULL, FALSE) /\ UNCHANGED table
     ELSE
       /\ table' = deleteByIdAndUser(table, reportId, user)
       /\ respondTo(u, "deleteReport", 200, NULL, FALSE)
  /\ UNCHANGED <<req, openaiApiKey>>

(*-------------------------- api/getSavedReports -------------------------*)
getSavedReportsHandler(u, method, user) ==
  /\ user \in {u, NoUser}
  /\ IF method # "GET" THEN
       respondTo(u, "getSavedReports", 405, NULL, FALSE)
     ELSE IF unauthorized(user) THEN
       respondTo(u, "getSavedReports", 401, NULL, FALSE)
     ELSE
       respondTo(u, "getSavedReports", 200, selectByUser(table, user), FALSE)
  /\ UNCHANGED <<table, req, openaiApiKey>>

(***************************************************************************)
(* AppProvider, API variant: generateReport through fetch.                 *)
(***************************************************************************)
\* form submit: validation, then setIsGeneratingReport(true) and the POST of
\* { projectDetails }; the submit button is disabled while a request is pending
handleSubmitFetch(user) ==
  LET errors == validateForm(projectDetails) IN
  /\ ~isGeneratingReport
  /\ validationErrors' = errors
  /\ IF errors # {}
       THEN UNCHANGED <<isGeneratingReport, serverVars>>
       ELSE /\ isGeneratingReport' = TRUE
            /\ generateReportReceive(AppUser, "POST", user, projectDetails, TRUE)
  /\ UNCHANGED <<projectDetails, report, listVars, alertMsg, now, restVars>>

\* a client that takes every response for a success
okAlways(status) == TRUE

\* response.ok
ok(status) == status \in 200..299

\* the fetch settles: !response.ok throws to the caller, whose catch block
\* alerts; otherwise setReport; finally setIsGeneratingReport(false)
generateReportSettle ==
  /\ isGeneratingReport
  /\ fetched.op = "generateReport"
  /\ IF ~ok(fetched.status)
       THEN /\ alertMsg' = "An error occurred while generating the report. Please try again."
            /\ UNCHANGED report
       ELSE /\ report' = fetched.body
            /\ UNCHANGED alertMsg
  /\ isGeneratingReport' = FALSE
  /\ fetched' = NoResponse
  /\ UNCHANGED <<formVars, listVars, now, restVars, table, req, resp, openaiApiKey>>

(***************************************************************************)
(* Template renderer (AppProvider, first variant): every generator tests   *)
(* the lowercased description for its category keywords in a chain of      *)
(* if / else if.  issueDescription is a text; the long template strings    *)
(* are kept by their leading words.                                        *)
(***************************************************************************)
generateRelevantClauses(contractType, issueDescription) ==
  LET issueKeywords == lowerText(issueDescription)
      has(word) == includes(issueKeywords, Chars(word))
      form(word) == includes(Chars(contractType), Chars(word))
  IN IF form("JCT") THEN
       IF has("payment") THEN clauseList(<<"Clause 4.8", "Clause 4.9", "Clause 4.10", "Clause 4.11", "Clause 4.12", "Clause 4.13">>)
       ELSE IF has("delay") THEN clauseList(<<"Clause 2.26", "Clause 2.27", "Clause 2.28", "Clause 2.29", "Clause 2.25">>)
       ELSE IF has("variation") THEN clauseList(<<"Clause 3.14", "Clause 3.15", "Clause 3.16", "Clause 5.6", "Clause 5.7">>)
       ELSE IF has("defect") \/ has("quality") THEN clauseList(<<"Clause 2.38", "Clause 2.39", "Clause 2.40", "Clause 3.18">>)
       ELSE IF has("design") THEN clauseList(<<"Clause 2.1", "Clause 2.2", "Clause 2.17", "Clause 3.21">>)
       ELSE clauseList(<<"Clause 1.7", "Clause 2.1", "Clause 8.4", "Clause 8.9">>)
     ELSE IF form("NEC") THEN
       IF has("payment") THEN clauseList(<<"Clause 50.1", "Clause 50.2", "Clause 50.3", "Clause 51.1", "Clause 51.2">>)
       ELSE IF has("delay") THEN clauseList(<<"Clause 60.1", "Clause 61.3", "Clause 62.2", "Clause 63.3", "Clause 63.5">>)
       ELSE IF has("variation") THEN clauseList(<<"Clause 60.1(1)", "Clause 60.1(4)", "Clause 61.2", "Clause 63.1", "Clause 63.7">>)
       ELSE IF has("defect") \/ has("quality") THEN clauseList(<<"Clause 40.1", "Clause 42.1", "Clause 43.1", "Clause 44.1", "Clause 45.1">>)
       ELSE IF has("design") THEN clauseList(<<"Clause 21.1", "Clause 21.2", "Clause 27.1", "Option X15 (if applicable)">>)
       ELSE clauseList(<<"Clause 10.1", "Clause 15.1", "Clause 91.1", "Clause 93.1">>)
     ELSE IF form("FIDIC") THEN
       IF has("payment") THEN clauseList(<<"Clause 14.3", "Clause 14.6", "Clause 14.7", "Clause 14.8", "Clause 14.9">>)
       ELSE IF has("delay") THEN clauseList(<<"Clause 8.4", "Clause 8.5", "Clause 20.1", "Clause 3.5", "Clause 4.24">>)
       ELSE IF has("variation") THEN clauseList(<<"Clause 13.1", "Clause 13.2", "Clause 13.3", "Clause 12.3", "Clause 12.4">>)
       ELSE IF has("defect") \/ has("quality") THEN clauseList(<<"Clause 7.5", "Clause 7.6", "Clause 9.1", "Clause 11.1", "Clause 11.2">>)
       ELSE IF has("design") THEN clauseList(<<"Clause 4.1", "Clause 5.1", "Clause 5.2", "Clause 5.8", "Clause 4.11">>)
       ELSE clauseList(<<"Clause 1.9", "Clause 3.5", "Clause 4.1", "Clause 20.1">>)
     ELSE clauseList(<<"General Contract Provisions", "Specific Terms of Agreement",
                       "Implied Terms", "Variation and Change Provisions", "Payment Terms">>)

\* recommendations.push(...) under a condition
pushIf(cond, items) == IF cond THEN items ELSE <<>>

generateRecommendations(contractType, role, issueDescription) ==
  LET issueKeywords == lowerText(issueDescription)
      has(word) == includes(issueKeywords, Chars(word))
      is(word) == roleIncludes(role, word)
      form(word) == includes(Chars(contractType), Chars(word))
  IN IF has("payment") THEN
       IF is("Contractor") \/ is("Sub-contractor") THEN
         <<"For your specific payment issue, submit a formal ...",
            "Compile comprehensive payment documentation specific to your disputed ...",
            "Request a formal meeting with the contract administrator/quantity ...">>
         \o pushIf(has("late") \/ has("overdue"),
            <<"For your specific late payment issue, consider issuing ...",
            "Calculate and claim interest on your specific late ...">>)
       ELSE IF is("Client") \/ is("Employer") THEN
         <<"For your specific payment issue, review the application ...",
            "Ensure Payment Notices and Pay Less Notices relevant ...",
            "Maintain detailed records of any defects or non-compliant ...">>
         \o pushIf(has("dispute") \/ has("disagree"),
            <<"For your specific payment dispute, document any set-off ...">>)
       ELSE
         <<"For your specific payment issue, ensure all processes ...",
            "Maintain detailed records of all payment-related communications, notices, ...",
            "Advise relevant parties of their specific rights and ...">>
     ELSE IF has("delay") THEN
       IF is("Contractor") \/ is("Sub-contractor") THEN
         <<"For your specific delay issue, document all causes ...",
            "Submit extension of time notification for your specific ...",
            "Prepare a detailed delay analysis for your specific ...",
            "Implement and document specific mitigation measures for your ...">>
         \o pushIf(has("loss") \/ has("expense") \/ has("cost"),
            <<"For your specific compensable delay, prepare separate loss ...">>)
       ELSE IF is("Client") \/ is("Employer") THEN
         <<"For your specific delay issue, review the extension ...",
            "Assess extension of time claims related to your ...",
            "Maintain contemporaneous records of project progress, contractor performance, ...">>
         \o pushIf(has("liquidated") \/ has("damages"),
            <<"For your specific delay issue, ensure liquidated damages ...">>)
       ELSE IF is("Contract Administrator") \/ is("Engineer") THEN
         <<"For your specific delay issue, assess extension of ...",
            "Issue determinations for your specific delay issue within ...",
            "Maintain detailed records of your assessment process for ...">>
       ELSE
         <<"For your specific delay issue, document all relevant ...",
            "Submit detailed extension of time requests for your ...",
            "Implement and document specific mitigation measures to minimize ...">>
     ELSE IF has("variation") THEN
       IF is("Contractor") \/ is("Sub-contractor") THEN
         pushIf(has("instruct") \/ has("authoriz") \/ has("authoris"),
            <<"For your specific variation issue, ensure it is ...">>)
         \o <<"Submit detailed variation quotation for your specific change, ...",
            "Maintain specific records for your variation separate from ...">>
         \o pushIf(has("delay") \/ has("extension") \/ has("time"),
            <<"Notify promptly if your specific variation is likely ...">>)
       ELSE IF is("Client") \/ is("Employer") THEN
         <<"For your specific variation issue, ensure instructions are ...",
            "Request detailed quotation for your proposed variation before ...",
            "Maintain comprehensive documentation of your specific variation, including ...">>
       ELSE IF is("Contract Administrator") \/ is("Engineer") THEN
         <<"For your specific variation issue, issue instructions clearly ...",
            "Ensure your specific variation is properly valued according ...",
            "Assess time implications of your specific variation objectively, ...",
            "Maintain detailed records of your specific variation, including ...">>
       ELSE
         <<"For your specific variation issue, verify that it ...",
            "Establish a robust tracking system for your variation ...",
            "Ensure variation instructions provide clear scope definition and ...">>
     ELSE IF has("defect") \/ has("quality") THEN
       IF is("Contractor") \/ is("Sub-contractor") THEN
         <<"For your specific quality/defect issue, implement appropriate quality ...",
            "Document any instructions or specifications that may have ...",
            "Respond promptly to notifications regarding your specific defect, ...">>
         \o pushIf(has("rectif") \/ has("remed") \/ has("repair"),
            <<"For your specific defect, provide a detailed method ...">>)
       ELSE IF is("Client") \/ is("Employer") THEN
         <<"Document your specific defect thoroughly with photographs, measurements, ...",
            "Issue formal defect notification for your specific issue ...",
            "Allow reasonable access for inspection and remediation of ...">>
       ELSE
         <<"For your specific quality/defect issue, inspect work against ...",
            "Issue clear instructions regarding your specific defective work, ...",
            "Maintain detailed records of all quality-related communications, inspections, ...">>
     ELSE IF has("design") THEN
       IF is("Contractor") /\ (form("Design and Build") \/ has("contractor design")) THEN
         <<"For your specific design issue, review the specific ...",
            "Document any design approvals or acceptances by the ...",
            "Ensure professional indemnity insurance adequately covers your specific ...">>
       ELSE IF is("Client") \/ is("Employer") THEN
         <<"For your specific design issue, review the design ...",
            "Document your specific design deficiencies with reference to ...">>
         \o pushIf(has("approval") \/ has("review"),
            <<"Consider whether any design approval process operated under ...">>)
       ELSE IF is("Architect") \/ is("Engineer") THEN
         <<"For your specific design issue, review your appointment ...",
            "Maintain comprehensive records of design development, decisions, and ...">>
         \o pushIf(has("coordination"),
            <<"For your specific design coordination issue, ensure proper ...">>)
       ELSE
         <<"For your specific design issue, clarify design responsibility ...",
            "Document design development process and key decisions relevant ...",
            "Implement structured design review and approval procedures with ...">>
     ELSE
       <<"For your specific contractual issue, review all relevant ...",
            "Compile a comprehensive chronology of events related to ...",
            "Document your interpretation of the relevant contract clauses ...",
            "Seek early resolution of your specific issue through ...",
            "Consider whether independent expert opinion on technical aspects ...">>

\* the opening sentence of the analysis, which names the branch taken; the
\* paragraphs appended after it are left out
generateDetailedAnalysisDelayFirst(issueDescription, contractType, role) ==
  LET issueKeywords == lowerText(issueDescription)
      has(word) == includes(issueKeywords, Chars(word))
  IN IF has("delay")
       THEN "Based on the specific delay issue you've described"
     ELSE IF has("payment")
       THEN "Based on the specific payment issue you've described"
     ELSE IF has("variation") \/ has("change") \/ has("extra work")
       THEN "Based on the specific variation issue you've described"
     ELSE IF has("design") \/ has("specification") \/ has("drawing")
       THEN "Based on the specific design issue you've described"
     ELSE IF has("defect") \/ has("quality") \/ has("workmanship")
       THEN "Based on the specific quality/defect issue you've described"
     ELSE "Based on the specific contractual issue you've described"

generateDetailedAnalysis(issueDescription, contractType, role) ==
  LET issueKeywords == lowerText(issueDescription)
      has(word) == includes(issueKeywords, Chars(word))
  IN IF has("payment")
       THEN "Based on the specific payment issue you've described"
     ELSE IF has("delay")
       THEN "Based on the specific delay issue you've described"
     ELSE IF has("variation") \/ has("change") \/ has("extra work")
       THEN "Based on the specific variation issue you've described"
     ELSE IF has("design") \/ has("specification") \/ has("drawing")
       THEN "Based on the specific design issue you've described"
     ELSE IF has("defect") \/ has("quality") \/ has("workmanship")
       THEN "Based on the specific quality/defect issue you've described"
     ELSE "Based on the specific contractual issue you've described"

\* the explanation of one clause: `${clause}: ...`, the text kept by its first sentence
clauseExplanation(clause, contractType) ==
  LET form(word) == includes(Chars(contractType), Chars(word))
      has(word) == includes(clause, Chars(word))
      explanation(sentence) == <<clause, ": ", sentence>>
  IN IF form("JCT") THEN
       IF has("4.8") \/ has("4.9") \/ has("4.10") \/ has("4.11") \/ has("4.12") \/ has("4.13")
         THEN explanation("This provision is directly relevant to your payment issue.")
       ELSE IF has("2.26") \/ has("2.27") \/ has("2.28") \/ has("2.29")
         THEN explanation("This clause is directly relevant to your delay issue.")
       ELSE IF has("2.30") \/ has("2.31")
         THEN explanation("This clause is directly relevant to your acceleration issue.")
       ELSE IF has("3.14") \/ has("3.15") \/ has("3.16")
         THEN explanation("This provision is directly relevant to your variation issue.")
       ELSE IF has("2.38") \/ has("2.39") \/ has("2.40")
         THEN explanation("This clause is directly relevant to your defects issue.")
       ELSE IF has("4.21") \/ has("4.22") \/ has("4.23")
         THEN explanation("This provision is directly relevant to your loss and expense issue.")
       ELSE IF has("6.4") \/ has("6.5")
         THEN explanation("This provision is directly relevant to your payment issue.")
       ELSE IF has("8.9") \/ has("8.10") \/ has("8.11")
         THEN explanation("This clause is directly relevant to your termination issue.")
       ELSE explanation("This provision in your JCT contract is directly relevant to your specific issue.")
     ELSE IF form("NEC") THEN
       IF has("10.1")
         THEN explanation("This fundamental provision stating that the parties shall act in a 'spirit of mutual trust and co-operation' is directly relevant to your issue.")
       ELSE IF has("50") \/ has("51")
         THEN explanation("This provision is directly relevant to your payment issue.")
       ELSE IF has("60") \/ has("61") \/ has("62")
         THEN explanation("This clause is directly relevant to your compensation event issue.")
       ELSE IF has("63")
         THEN explanation("This clause is directly relevant to your compensation event assessment issue.")
       ELSE IF has("15")
         THEN explanation("This provision is directly relevant to your early warning issue.")
       ELSE IF has("30") \/ has("31") \/ has("32")
         THEN explanation("This clause is directly relevant to your programming issue.")
       ELSE IF has("40") \/ has("41") \/ has("42") \/ has("43")
         THEN explanation("This provision is directly relevant to your quality/defects issue.")
       ELSE IF has("91") \/ has("92") \/ has("93")
         THEN explanation("This clause is directly relevant to your termination issue.")
       ELSE explanation("This provision in your NEC contract is directly relevant to your specific issue.")
     ELSE IF form("FIDIC") THEN
       IF has("2.5") \/ has("3.5") \/ has("20.1")
         THEN explanation("This provision is directly relevant to your claims issue.")
       ELSE IF has("8.4") \/ has("8.5")
         THEN explanation("This clause is directly relevant to your extension of time issue.")
       ELSE IF has("13.1") \/ has("13.2") \/ has("13.3")
         THEN explanation("This provision is directly relevant to your variation issue.")
       ELSE IF has("14")
         THEN explanation("This clause is directly relevant to your payment issue.")
       ELSE IF has("16") \/ has("19")
         THEN explanation("This provision is directly relevant to your suspension/force majeure issue.")
       ELSE IF has("4.1") \/ has("4.2")
         THEN explanation("This clause is directly relevant to your contractor obligations issue.")
       ELSE IF has("7") \/ has("9")
         THEN explanation("This provision is directly relevant to your testing/completion issue.")
       ELSE explanation("This provision in your FIDIC contract is directly relevant to your specific issue.")
     ELSE explanation("This provision in your specific contract establishes important rights and obligations directly relevant to your issue.")

generateClauseExplanations(relevantClauses, contractType) ==
  [k \in 1..Len(relevantClauses) |-> clauseExplanation(relevantClauses[k], contractType)]

\* the blocks of the legal framework: the heading, the contract, the case
\* law of the category (the statutes and the cases listed with it are left
\* out), the ways of dispute resolution
generateLegalContext(contractType, issueDescription) ==
  LET issueKeywords == lowerText(issueDescription)
      has(word) == includes(issueKeywords, Chars(word))
      form(word) == includes(Chars(contractType), Chars(word))
  IN <<"LEGAL FRAMEWORK DIRECTLY RELEVANT TO YOUR ISSUE:">>
     \o (IF form("JCT") \/ form("NEC") \/ form("FIDIC")
           THEN <<<<"Your ", contractType, " Contract: This forms the primary legal basis ...">>>>
           ELSE <<<<"Your Specific Contract Agreement: This forms the primary legal basis ...">>>>)
     \o (IF has("payment")
           THEN <<"Relevant Case Law: For your specific payment issue ...">>
         ELSE IF has("delay") \/ has("extension")
           THEN <<"Relevant Case Law: For your specific delay issue ...">>
         ELSE IF has("variation") \/ has("change")
           THEN <<"Relevant Case Law: For your specific variation issue ...">>
         ELSE IF has("defect") \/ has("quality")
           THEN <<"Relevant Case Law: For your specific quality issue ...">>
         ELSE IF has("design")
           THEN <<"Relevant Case Law: For your specific design issue ...">>
         ELSE <<>>)
     \o <<"Dispute Resolution Options: For your specific issue ...",
          "Adjudication: A statutory right ...", "Mediation: A non-binding facilitated negotiation process ...">>
     \o pushIf(form("arbitration") \/ has("arbitration"), <<"Arbitration: If provided ...">>)
     \o <<"Litigation: Court proceedings ...">>

\* the introduction and the first outcome of the category (the further
\* outcomes of the branch are left out)
generatePotentialOutcomes(issueDescription, contractType, role) ==
  LET issueKeywords == lowerText(issueDescription)
      has(word) == includes(issueKeywords, Chars(word))
  IN <<"Based on your specific issue and the applicable contractual framework ...",
       IF has("payment") THEN "1. Negotiated Resolution"
       ELSE IF has("delay") THEN "1. Extension of Time Award"
       ELSE IF has("variation") \/ has("change") THEN "1. Valuation Agreement"
       ELSE IF has("defect") \/ has("quality") THEN "1. Remedial Works Agreement"
       ELSE IF has("design") THEN "1. Design Responsibility Determination"
       ELSE "1. Contractual Resolution Through Existing Mechanisms">>

\* the introduction and the first immediate action of the category
generateTimelineSuggestions(issueDescription) ==
  LET issueKeywords == lowerText(issueDescription)
      has(word) == includes(issueKeywords, Chars(word))
  IN <<"Recommended timeline for addressing your specific issue:",
       IF has("payment")
         THEN "Review your contract payment terms and notice requirements ..."
       ELSE IF has("delay")
         THEN "Document the specific cause and extent of delay ..."
       ELSE IF has("variation") \/ has("change")
         THEN "Clarify whether your specific variation has been properly instructed ..."
       ELSE IF has("defect") \/ has("quality")
         THEN "Document the specific defects thoroughly ..."
       ELSE "Review the specific contract clauses relevant to your issue.">>

\* the three parts of the assessment that depend on the issue: probability
\* analysis, quantifiable benefits, recommended approach
generateRiskAssessment(issueDescription, contractType, role) ==
  LET issueKeywords == lowerText(issueDescription)
      has(word) == includes(issueKeywords, Chars(word))
      is(word) == roleIncludes(role, word)
  IN <<"RISK ASSESSMENT SPECIFIC TO YOUR ISSUE:",
       IF has("payment") /\ (is("Contractor") \/ is("Sub-contractor"))
         THEN "Based on your specific payment issue, the probability of ..."
       ELSE IF has("payment") /\ (is("Client") \/ is("Employer"))
         THEN "Based on your specific payment issue, your position strength ..."
       ELSE IF has("delay") /\ (is("Contractor") \/ is("Sub-contractor"))
         THEN "Based on your specific delay issue, your probability of ..."
       ELSE IF has("variation") /\ (is("Contractor") \/ is("Sub-contractor"))
         THEN "Based on your specific variation issue, your probability of ..."
       ELSE "Based on your specific contractual issue, the probability of ...",
       IF has("payment") THEN "Direct recovery: The disputed payment amount ..."
       ELSE IF has("delay") THEN "Time relief: Avoidance of delay damages ..."
       ELSE IF has("variation") THEN "Direct payment: Recovery of costs for additional work ..."
       ELSE "Direct resolution: The quantifiable value of resolving your ...",
       IF has("payment") /\ (is("Contractor") \/ is("Sub-contractor"))
         THEN "Based on risk-benefit analysis of your specific payment issue ..."
       ELSE IF has("delay")
         THEN "Based on risk-benefit analysis of your specific delay issue ..."
       ELSE IF has("variation")
         THEN "Based on risk-benefit analysis of your specific variation issue ..."
       ELSE "Based on risk-benefit analysis of your specific issue ...">>

\* the Analysis generateReport builds for one issue of the form
issueTemplate(issue, pd) ==
  LET description == Chars(issue.description)
      relevantClauses == generateRelevantClauses(pd.contractType, description)
      recommendations ==
        generateRecommendations(pd.contractType, pd.organizationRole, description)
  IN [issue |-> issue.description,
      actionsTaken |-> issue.actionsTaken,
      detailedAnalysis |->
        generateDetailedAnalysis(description, pd.contractType, pd.organizationRole),
      legalContext |-> generateLegalContext(pd.contractType, description),
      relevantClauses |-> relevantClauses,
      clauseExplanations |-> generateClauseExplanations(relevantClauses, pd.contractType),
      recommendations |-> recommendations,
      potentialOutcomes |->
        generatePotentialOutcomes(description, pd.contractType, pd.organizationRole),
      timelineSuggestions |-> generateTimelineSuggestions(description),
      riskAssessment |->
        generateRiskAssessment(description, pd.contractType, pd.organizationRole)]

(***************************************************************************)
(* Template report generator (AppProvider.generateReport, first variant).  *)
(***************************************************************************)
\* the analysis of a report held in the state keeps the two fields of
\* issueTemplate that the form supplies
TemplateAnalysis(pd) ==
  [i \in 1..Len(pd.issues) |->
     [issue |-> pd.issues[i].description,
      actionsTaken |-> pd.issues[i].actionsTaken]]

\* Date.now().toString(), new Date().toISOString(), { ...projectDetails }
TemplateReport(pd, t) ==
  [id |-> ToString(t), date |-> t, projectDetails |-> pd,
   analysis |-> TemplateAnalysis(pd)]

generateReport ==
  /\ report' = TemplateReport(projectDetails, now)
  /\ UNCHANGED <<projectDetails, isGeneratingReport, listVars, alertMsg,
                  now, restVars, serverVars>>

\* form submit: validateForm, then generateReport and navigate('/report')
handleSubmit ==
  LET errors == validateForm(projectDetails) IN
  /\ validationErrors' = errors
  /\ IF errors # {}
       THEN UNCHANGED <<projectDetails, report, isGeneratingReport, listVars,
                        alertMsg, now, restVars, serverVars>>
       ELSE generateReport

(***************************************************************************)
(* Letter assembler of AppProvider (template variant).                     *)
(***************************************************************************)
\* data/organizationRoles.js: the roles of the select box with the group
\* heading each is listed under
organizationRoles ==
  << [role |-> "Client/Employer", group |-> "Client roles"],
     [role |-> "Client Representative", group |-> "Client roles"],
     [role |-> "Project Sponsor", group |-> "Client roles"],
     [role |-> "Architect", group |-> "Professional roles"],
     [role |-> "Contract Administrator", group |-> "Professional roles"],
     [role |-> "Project Manager", group |-> "Professional roles"],
     [role |-> "Quantity Surveyor", group |-> "Professional roles"],
     [role |-> "Engineer", group |-> "Professional roles"],
     [role |-> "Principal Designer", group |-> "Professional roles"],
     [role |-> "CDM Coordinator", group |-> "Professional roles"],
     [role |-> "Employer's Agent", group |-> "Professional roles"],
     [role |-> "Main Contractor", group |-> "Contractor roles"],
     [role |-> "Design and Build Contractor", group |-> "Contractor roles"],
     [role |-> "Principal Contractor", group |-> "Contractor roles"],
     [role |-> "Construction Manager", group |-> "Contractor roles"],
     [role |-> "Management Contractor", group |-> "Contractor roles"],
     [role |-> "Domestic Sub-contractor", group |-> "Sub-contractor roles"],
     [role |-> "Nominated Sub-contractor", group |-> "Sub-contractor roles"],
     [role |-> "Named Sub-contractor", group |-> "Sub-contractor roles"],
     [role |-> "Specialist Sub-contractor", group |-> "Sub-contractor roles"],
     [role |-> "Material/Equipment Supplier", group |-> "Suppliers"],
     [role |-> "Specialist Supplier", group |-> "Suppliers"],
     [role |-> "Consultant", group |-> "Other roles"],
     [role |-> "Legal Advisor", group |-> "Other roles"],
     [role |-> "Other", group |-> "Other roles"] >>

\* AppContext.jsx getDraftRecipient
getDraftRecipient(role) ==
  IF roleIncludes(role, "Client") \/ roleIncludes(role, "Employer")
    THEN "The Contractor"
  ELSE IF roleIncludes(role, "Contractor")
    THEN "The Employer/Client"
  ELSE IF roleIncludes(role, "Sub-contractor")
    THEN "The Main Contractor"
  ELSE IF roleIncludes(role, "Contract Administrator") \/ roleIncludes(role, "Architect")
    THEN "The Relevant Party"
  ELSE "The Contract Administrator"

\* the draft generateDraftCommunication builds for reportData while the form
\* holds pd; random is Math.floor(Math.random() * 1000), t the clock.  The
\* template literals are kept as the tuples of their parts.
assembleDraft(reportData, pd, random, t) ==
  LET recipientRole == getDraftRecipient(pd.organizationRole)
      salutation ==
        IF roleIncludes(recipientRole, "Contract Administrator")
           \/ roleIncludes(recipientRole, "Architect")
          THEN <<"Dear ", recipientRole, ",">>
          ELSE <<"Dear Sir/Madam,">>
      opening ==
        <<"Re: ", pd.projectName, " - ", pd.contractType,
          "I am writing to you in my capacity as ", pd.organizationRole,
          IF Len(reportData.analysis) = 1 THEN "matter" ELSE "matters">>
      body ==
        [i \in 1..Len(reportData.analysis) |->
           <<"Issue ", i, ": ", reportData.analysis[i].issue,
             IF trim(reportData.analysis[i].actionsTaken) # ""
               THEN reportData.analysis[i].actionsTaken ELSE "">>]
  IN [to |-> recipientRole,
      subject |-> <<pd.projectName, " - ", pd.contractType, " - Contract Notice">>,
      greeting |-> salutation,
      body |-> <<opening, body>>,
      closing |-> "",
      sender |-> <<"REF: ", pd.projectName, random, "Date: ", t>>]

\* generateDraftCommunication(reportData): setDraftCommunication(draft)
generateDraftCommunication(reportData, random) ==
  /\ draftCommunication' = assembleDraft(reportData, projectDetails, random, now)
  /\ UNCHANGED <<clientVars, now, responseText, call, result, serverVars, uiVars>>

\* ReportView.handleLetterPromptResponse(true): the letter for the current report
handleLetterPromptResponse(random) ==
  /\ report # NULL
  /\ generateDraftCommunication(report, random)

\* ReportView.handleCreateDraftLetter while the i-th saved report is selected
\* (i = 0: none selected, the current report is displayed)
handleCreateDraftLetter(i, random) ==
  LET displayReport == IF i = 0 THEN report ELSE savedReports[i] IN
  /\ i \in 0..Len(savedReports)
  /\ draftCommunication = NULL
  /\ displayReport # NULL
  /\ generateDraftCommunication(displayReport, random)

(***************************************************************************)
(* api/generateLetter.js: the parser of the letter completion.  The parts  *)
(* of the letter are texts.                                                *)
(***************************************************************************)
\* a mapping that tests the role without regard to the case of the letters
getDraftRecipientAnyCase(role) ==
  LET has(word) == includes(lowerText(Chars(role)), lowerText(Chars(word)))
  IN IF has("Client") \/ has("Employer") THEN "The Contractor"
     ELSE IF has("Contractor") THEN "The Employer/Client"
     ELSE IF has("Sub-contractor") THEN "The Main Contractor"
     ELSE IF has("Contract Administrator") \/ has("Architect") THEN "The Relevant Party"
     ELSE "The Contract Administrator"

\* generateLetter.js getDraftRecipient
getDraftRecipientServer(role) ==
  IF roleIncludes(role, "Client") \/ roleIncludes(role, "Employer")
    THEN "The Contractor"
  ELSE IF roleIncludes(role, "Contractor")
    THEN "The Employer/Client"
  ELSE IF roleIncludes(role, "Sub-contractor")
    THEN "The Main Contractor"
  ELSE IF roleIncludes(role, "Contract Administrator") \/ roleIncludes(role, "Architect")
    THEN "The Relevant Party"
  ELSE "The Contract Administrator"

extractLetterPart(text, startMarker, endMarker) ==
  LET startIndex == indexOf(text, Chars(startMarker), 0)
      endIndex == indexOf(text, Chars(endMarker), startIndex)
  IN IF startIndex = -1 THEN <<>>
     ELSE IF endIndex = -1 THEN <<>>
     ELSE trimText(substring(text, startIndex + Len(Chars(startMarker)), endIndex))

\* a part that is kept whatever it holds
keepValue(value, default) == value

\* value || default, and "if (!value) value = default"
orDefault(value, default) == IF value # <<>> THEN value ELSE default

RECURSIVE skipUntil(_, _, _)
\* the position p moved over the characters that are not in stops
skipUntil(t, p, stops) ==
  IF p < Len(t) /\ t[p + 1] \notin stops THEN skipUntil(t, p + 1, stops) ELSE p

\* /Dear\s+[^,\n]+(,|\n|$)/ tried at the "Dear" at position p: the end of the
\* match, or -1.  \s+ takes the whole run of white space unless the name has
\* to start inside the run.
greetingEndAt(t, p) ==
  LET w == skipClass(t, p + 4, SpaceChars)
      starts == { s \in (p + 5)..w : s < Len(t) /\ t[s + 1] \notin {",", "\n"} }
  IN IF starts = {} THEN -1
     ELSE LET s == CHOOSE x \in starts : \A y \in starts : y <= x
              r == skipUntil(t, s, {",", "\n"})
          IN IF r < Len(t) THEN r + 1 ELSE r

RECURSIVE greetingMatch(_, _)
\* response.match(/Dear\s+[^,\n]+(,|\n|$)/)[0] searched from position
\* from on, <<>> when there is no match
greetingMatch(t, from) ==
  LET p == indexOf(t, Chars("Dear"), from)
  IN IF p = -1 THEN <<>>
     ELSE IF greetingEndAt(t, p) # -1 THEN substring(t, p, greetingEndAt(t, p))
     ELSE greetingMatch(t, p + 1)

closingPhrases ==
  <<"Yours sincerely", "Yours faithfully", "Regards", "Kind regards",
    "Best regards", "Yours truly">>

RECURSIVE findClosing(_, _, _)
\* the loop over closingPhrases from the k-th phrase on
findClosing(t, k, found) ==
  IF k > Len(closingPhrases) THEN found
  ELSE LET index == indexOf(t, Chars(closingPhrases[k]), 0)
       IN findClosing(t, k + 1,
            IF index # -1 /\ (found.closingIndex = -1 \/ index < found.closingIndex)
              THEN [closingIndex |-> index, closingPhrase |-> closingPhrases[k]]
              ELSE found)

\* body.replace(/^(Subject|Re):[^\n]*\n/, '')
removeHeadingLine(body) ==
  LET head == IF indexOf(body, Chars("Subject:"), 0) = 0 THEN 8
              ELSE IF indexOf(body, Chars("Re:"), 0) = 0 THEN 3
              ELSE -1
      lineEnd == indexOf(body, <<"\n">>, head)
  IN IF head = -1 THEN body
     ELSE IF lineEnd = -1 THEN body
     ELSE substring(body, lineEnd + 1, Len(body))

toUpperCase(c) ==
  CASE c = "a" -> "A" [] c = "b" -> "B" [] c = "c" -> "C" [] c = "d" -> "D"
    [] c = "e" -> "E" [] c = "f" -> "F" [] c = "g" -> "G" [] c = "h" -> "H"
    [] c = "i" -> "I" [] c = "j" -> "J" [] c = "k" -> "K" [] c = "l" -> "L"
    [] c = "m" -> "M" [] c = "n" -> "N" [] c = "o" -> "O" [] c = "p" -> "P"
    [] c = "q" -> "Q" [] c = "r" -> "R" [] c = "s" -> "S" [] c = "t" -> "T"
    [] c = "u" -> "U" [] c = "v" -> "V" [] c = "w" -> "W" [] c = "x" -> "X"
    [] c = "y" -> "Y" [] c = "z" -> "Z" [] OTHER -> c

RECURSIVE numberToString(_)
\* Number.prototype.toString of a natural number
numberToString(n) ==
  LET digit == <<"0", "1", "2", "3", "4", "5", "6", "7", "8", "9">>[(n % 10) + 1]
  IN IF n < 10 THEN <<digit>> ELSE numberToString(n \div 10) \o <<digit>>

RECURSIVE padStart(_, _, _)
padStart(t, targetLength, c) ==
  IF Len(t) >= targetLength THEN t ELSE padStart(<<c>> \o t, targetLength, c)

\* random is Math.floor(Math.random() * 1000); date holds getFullYear() and
\* toLocaleDateString('en-GB', ...) of the clock
parseGptLetterResponse(response, reportData, random, date) ==
  LET pd == reportData.projectDetails
      to == orDefault(extractLetterPart(response, "To:", "Subject:"),
                      Chars(getDraftRecipientServer(pd.organizationRole)))
      subject == orDefault(extractLetterPart(response, "Subject:", "Dear"),
                           Chars(pd.projectName) \o <<" ", "-", " ">>
                           \o Chars(pd.contractType) \o <<" ", "-", " ">>
                           \o Chars("Contract Notice"))
      greetingMatched ==
        IF includes(response, Chars("Dear"))
          THEN trimText(greetingMatch(response, 0))
          ELSE <<>>
      greetingFound ==
        IF greetingMatched # <<>> /\ greetingMatched[Len(greetingMatched)] # ","
          THEN Append(greetingMatched, ",")
          ELSE greetingMatched
      greeting == orDefault(greetingFound, Chars("Dear") \o <<" ">> \o to \o <<",">>)
      found == findClosing(response, 1, [closingIndex |-> -1, closingPhrase |-> ""])
      closingIndex == found.closingIndex
      greetingEndIndex == indexOf(response, greeting, 0) + Len(greeting)
      body ==
        trimText(removeHeadingLine(trimText(
          substring(response, greetingEndIndex,
                    IF closingIndex # -1 THEN closingIndex ELSE Len(response)))))
      nextLineIndex == indexOf(response, <<"\n">>, closingIndex)
      closing ==
        IF closingIndex # -1 THEN
          IF nextLineIndex # -1
            THEN trimText(substring(response, closingIndex, nextLineIndex))
            ELSE Chars(found.closingPhrase)
        ELSE IF \E k \in 1..Len(closingPhrases) :
                  includes(response, Chars(closingPhrases[k]))
          THEN Chars(closingPhrases[CHOOSE k \in 1..Len(closingPhrases) :
                       /\ includes(response, Chars(closingPhrases[k]))
                       /\ \A j \in 1..(k - 1) :
                            ~includes(response, Chars(closingPhrases[j]))])
        ELSE Chars("Yours faithfully,")
      senderFound ==
        IF closingIndex # -1 /\ nextLineIndex # -1
          THEN trimText(substring(response, nextLineIndex, Len(response)))
          ELSE <<>>
      refNumber ==
        Chars("REF:") \o <<" ">>
        \o [k \in 1..Len(substring(Chars(pd.projectName), 0, 3)) |->
              toUpperCase(Chars(pd.projectName)[k])]
        \o <<"/">> \o numberToString(date.year)
        \o <<"/">> \o padStart(numberToString(random), 3, "0")
      sender ==
        orDefault(senderFound,
                  Chars("[NAME]") \o <<"\n">> \o Chars("[POSITION]") \o <<"\n">>
                  \o Chars("[COMPANY]") \o <<"\n">> \o refNumber \o <<"\n">>
                  \o Chars("Date:") \o <<" ">> \o Chars(date.formatted))
  IN [to |-> to, subject |-> subject, greeting |-> greeting, body |-> body,
      closing |-> closing, sender |-> sender]

(*--------------------------- api/generateLetter --------------------------*)
\* buildLetterPrompt maps report.analysis and joins relevantClauses and
\* recommendations of every entry; it throws on an entry without them
wellFormedReport(r) ==
  \A k \in 1..Len(r.analysis) :
    /\ "relevantClauses" \in DOMAIN r.analysis[k]
    /\ "recommendations" \in DOMAIN r.analysis[k]

\* the request arrives: method, authentication, body and credential checks,
\* then the prompt is built and the completion is requested
generateLetterReceive(u, method, user, r) ==
  /\ req[u].pc = "idle"
  /\ user \in {u, NoUser}
  /\ IF method # "POST" THEN
       /\ respondTo(u, "generateLetter", 405, NULL, FALSE) /\ UNCHANGED req
     ELSE IF unauthorized(user) THEN
       /\ respondTo(u, "generateLetter", 401, NULL, FALSE) /\ UNCHANGED req
     ELSE IF r = NULL \/ "projectDetails" \notin DOMAIN r \/ "analysis" \notin DOMAIN r THEN
       /\ respondTo(u, "generateLetter", 400, NULL, FALSE) /\ UNCHANGED req
     ELSE IF ~openaiApiKey THEN
       /\ respondTo(u, "generateLetter", 400, NULL, FALSE) /\ UNCHANGED req
     ELSE IF ~wellFormedReport(r) THEN
       /\ respondTo(u, "generateLetter", 500, NULL, FALSE) /\ UNCHANGED req
     ELSE
       /\ req' = [req EXCEPT ![u] = [pc |-> "openaiLetter", report |-> r, app |-> FALSE]]
       /\ UNCHANGED <<resp, fetched>>
  /\ UNCHANGED <<table, openaiApiKey>>

\* openai.chat.completions.create rejects: the catch block answers
generateLetterFailure(u, authorization) ==
  /\ req[u].pc = "openaiLetter"
  /\ respond(u, "generateLetter", IF authorization THEN 401 ELSE 500, NULL)
  /\ req' = [req EXCEPT ![u] = Idle]
  /\ UNCHANGED <<table, openaiApiKey>>

\* the completion arrives: it is parsed and answered with 200
generateLetterCompletion(u, text, random, date) ==
  /\ req[u].pc = "openaiLetter"
  /\ respond(u, "generateLetter", 200,
             parseGptLetterResponse(text, req[u].report, random, date))
  /\ req' = [req EXCEPT ![u] = Idle]
  /\ UNCHANGED <<table, openaiApiKey>>

(***************************************************************************)
(* Inputs of the API requests.                                             *)
(***************************************************************************)
Methods == {"GET", "POST", "DELETE"}

ValidDetails ==
  [projectName |-> "Tower", projectDescription |-> "Office block",
   contractType |-> "JCT Standard Building Contract",
   organizationRole |-> "Main Contractor",
   issues |-> << [description |-> "late payment", actionsTaken |-> ""],
                 [description |-> "defects", actionsTaken |-> "notice sent"] >>]

BlankDetails ==
  [projectName |-> "", projectDescription |-> "", contractType |-> "",
   organizationRole |-> "", issues |-> <<[description |-> " ", actionsTaken |-> ""]>>]

MalformedDetails == [projectName |-> "Tower"]

\* request bodies of POST /api/generateReport (projectDetails or none)
GenerateBodies == <<NULL, ValidDetails, BlankDetails, MalformedDetails>>

SavedDetails ==
  [projectName |-> "Tower", projectDescription |-> "Office block",
   contractType |-> "NEC4", organizationRole |-> "Client/Employer",
   issues |-> << [description |-> "delay", actionsTaken |-> ""] >>]

\* request bodies of POST /api/saveReport: reports, and bodies that fail
\* the handler's validation
SaveReports ==
  { [id |-> "1", date |-> 1, projectDetails |-> SavedDetails, analysis |-> <<>>],
    [id |-> "1", date |-> 1, projectDetails |-> SavedDetails,
     analysis |-> <<[issue |-> "delay", actionsTaken |-> ""]>>],
    [id |-> "2", date |-> 1, projectDetails |-> SavedDetails, analysis |-> <<>>] }
InvalidSaveBodies ==
  << NULL,
     [id |-> "", date |-> 1, projectDetails |-> SavedDetails, analysis |-> <<>>],
     [id |-> "1", date |-> 1, analysis |-> <<>>] >>

\* request bodies of POST /api/generateLetter: none, a report without its
\* analysis, a report, a report whose analysis entry has no clause list
LetterRequestBodies ==
  << NULL,
     [projectDetails |-> ValidDetails],
     [projectDetails |-> ValidDetails, analysis |-> <<>>],
     [projectDetails |-> ValidDetails,
      analysis |-> <<[issue |-> "late payment", actionsTaken |-> ""]>>] >>

ReportIds == {"", "1", "2"}

\* completions the generation service answers with: no marker, one marker,
\* as many markers as ValidDetails has issues, one more
Completions ==
  << <<>>,
     <<"a","b","c">>,
     <<"I","s","s","u","e","2",":","a","b","c">>,
     <<"I","S","S","U","E"," ","1",":","a","I","s","s","u","e","2",":">>,
     <<"I","S","S","U","E"," ","1",":","I","s","s","u","e","2",":","I","s","s","u","e","2",":">> >>

(***************************************************************************)
(* The router (App), the disclaimer page and the consent of AppProvider.   *)
(***************************************************************************)
ProtectedPaths == {"/project", "/report", "/settings"}

\* routes that render their page whatever the consent
routeOpen(path, consent) ==
  IF path \in ProtectedPaths THEN path
  ELSE IF consent THEN "/project"
  ELSE "/"

\* the path the routes of App settle on for a requested path: a protected
\* route renders <Navigate to="/"> without consent, every other path goes to
\* "/", and DisclaimerPage navigates to /project once consent is given
route(path, consent) ==
  IF ~consent THEN "/"
  ELSE IF path \in ProtectedPaths THEN path
  ELSE "/project"

\* the component that issued a fetch is unmounted when its page is left
pageOf(caller) == IF caller = "form" THEN "/project" ELSE "/report"
unmount(requests, path) ==
  [k \in 1..Len(requests) |->
     IF pageOf(requests[k].caller) = path
       THEN [requests[k] EXCEPT !.mounted = FALSE]
       ELSE requests[k]]

\* a change of the rendered page: the page left is unmounted and the page
\* entered is mounted with the initial values of its local state
navigate(path) ==
  LET target == route(path, hasConsented) IN
  /\ target # location
  /\ location' = target
  /\ selectedReport' = NULL
  /\ showDraft' = FALSE
  /\ showSavedReports' = FALSE
  /\ isGenerating' = FALSE
  /\ isSubmitting' = FALSE
  /\ validationErrors' = {}
  /\ exitMessage' = FALSE
  /\ reportRequests' = unmount(reportRequests, location)
  /\ UNCHANGED <<projectDetails, report, isGeneratingReport, listVars, alertMsg, now,
                  responseText, draftCommunication, call, result, serverVars,
                  shouldGenerateLetter, isGeneratingLetter, letterRequests,
                  hasConsented>>

\* a navigation to a path that renders the page already shown: the
\* <Navigate replace> of a refused route re-mounts the disclaimer page
navigateRefused(path) ==
  /\ ~hasConsented
  /\ path # "/"
  /\ route(path, hasConsented) = location
  /\ exitMessage' = FALSE
  /\ UNCHANGED <<clientVars, now, responseText, draftCommunication, call, result,
                  serverVars, viewVars, busyVars, hasConsented, location>>

\* DisclaimerPage.handleAccept: giveConsent() and navigate('/project')
handleAccept ==
  /\ location = "/"
  /\ ~hasConsented
  /\ hasConsented' = TRUE
  /\ location' = route("/project", TRUE)
  /\ exitMessage' = FALSE
  /\ UNCHANGED <<clientVars, now, responseText, draftCommunication, call, result,
                  serverVars, viewVars, busyVars>>

\* DisclaimerPage.handleDecline: the exit message is shown, the page stays
handleDecline ==
  /\ location = "/"
  /\ ~hasConsented
  /\ exitMessage' = TRUE
  /\ UNCHANGED <<clientVars, now, responseText, draftCommunication, call, result,
                  serverVars, viewVars, busyVars, hasConsented, location>>

\* AppProvider.revokeConsent: the routes render again without consent
revokeConsent ==
  /\ hasConsented
  /\ hasConsented' = FALSE
  /\ location' = route(location, FALSE)
  /\ selectedReport' = NULL
  /\ showDraft' = FALSE
  /\ showSavedReports' = FALSE
  /\ isGenerating' = FALSE
  /\ isSubmitting' = FALSE
  /\ validationErrors' = {}
  /\ exitMessage' = FALSE
  /\ reportRequests' = unmount(reportRequests, location)
  /\ UNCHANGED <<projectDetails, report, isGeneratingReport, listVars, alertMsg, now,
                  responseText, draftCommunication, call, result, serverVars,
                  shouldGenerateLetter, isGeneratingLetter, letterRequests>>

(***************************************************************************)
(* ReportView and ProjectDetailsForm over AppProvider, API variant: the    *)
(* fetches of generateReport and generateDraftCommunication are in flight  *)
(* between the call and the settling of the response.                      *)
(***************************************************************************)
\* bound of the fetches of one kind in flight
MaxPending == 2

\* the completions the API answers with in this part of the model
ReportCompletion == <<>>
LetterCompletion ==
  Chars("Dear Sir,") \o <<"\n">> \o Chars("Please pay.") \o <<"\n">>
  \o Chars("Regards") \o <<"\n">>
LetterDate == [year |-> 2025, formatted |-> "1 May 2025"]

\* the letter POST /api/generateLetter answers with for reportData
GptLetter(reportData) ==
  parseGptLetterResponse(LetterCompletion, reportData, 7, LetterDate)

RemoveAt(s, k) == [j \in 1..(Len(s) - 1) |-> IF j < k THEN s[j] ELSE s[j + 1]]

\* ReportView: const displayReport = selectedReport || report
displayReport == IF selectedReport # NULL THEN selectedReport ELSE report

\* the useEffect on [report, shouldGenerateLetter] and the reset by the answer
showLetterPrompt == report # NULL /\ shouldGenerateLetter = "null"

\* the branches of the render of ReportView
listShown == location = "/report" /\ showSavedReports
promptShown ==
  location = "/report" /\ ~showSavedReports /\ displayReport # NULL /\ showLetterPrompt
mainShown ==
  location = "/report" /\ ~showSavedReports /\ displayReport # NULL /\ ~showLetterPrompt

\* AppProvider.generateReport up to the await of the fetch
generateReportRequest(caller) ==
  /\ Len(reportRequests) < MaxPending
  /\ isGeneratingReport' = TRUE
  /\ reportRequests' = Append(reportRequests,
                              [caller |-> caller, mounted |-> TRUE,
                               projectDetails |-> projectDetails])

\* ProjectDetailsForm.handleSubmit up to the await: validateForm,
\* setIsSubmitting(true), generateReport(); the button is disabled while
\* isSubmitting
handleSubmitRequest ==
  LET errors == validateForm(projectDetails) IN
  /\ location = "/project"
  /\ ~isSubmitting
  /\ validationErrors' = errors
  /\ IF errors # {}
       THEN UNCHANGED <<isSubmitting, isGeneratingReport, reportRequests>>
       ELSE isSubmitting' = TRUE /\ generateReportRequest("form")
  /\ UNCHANGED <<projectDetails, report, listVars, alertMsg, now, responseText,
                  draftCommunication, call, result, serverVars, viewVars,
                  isGenerating, isGeneratingLetter, letterRequests, routeVars>>

\* ReportView.handleRegenerateReport up to the await: the 'New Report' button
\* is rendered for a loaded saved report and disabled while isGenerating
handleRegenerateReportRequest ==
  /\ mainShown /\ ~showDraft /\ selectedReport # NULL
  /\ ~isGenerating
  /\ isGenerating' = TRUE
  /\ generateReportRequest("view")
  /\ UNCHANGED <<formVars, report, listVars, alertMsg, now, responseText,
                  draftCommunication, call, result, serverVars, viewVars,
                  isSubmitting, isGeneratingLetter, letterRequests, routeVars>>

\* the k-th fetch of generateReport settles: setReport on success, throw
\* otherwise, finally setIsGeneratingReport(false); then the rest of the
\* handler that awaited it (the setters of an unmounted component do nothing)
generateReportSettled(k, okResponse) ==
  LET rq == reportRequests[k]
      rest == RemoveAt(reportRequests, k)
      navigates == rq.caller = "form" /\ okResponse
                   /\ route("/report", hasConsented) # location
      viewDone == rq.caller = "view" /\ rq.mounted
      formDone == rq.caller = "form" /\ rq.mounted
  IN
  /\ isGeneratingReport' = FALSE
  /\ report' = IF okResponse THEN GptReport(ReportCompletion, rq.projectDetails, now)
               ELSE report
  /\ alertMsg' = IF okResponse THEN alertMsg
                 ELSE IF rq.caller = "form"
                   THEN "An error occurred while generating the report. Please try again."
                   ELSE "An error occurred while regenerating the report. Please try again."
  /\ location' = IF navigates THEN route("/report", hasConsented) ELSE location
  /\ reportRequests' = IF navigates THEN unmount(rest, location) ELSE rest
  /\ shouldGenerateLetter' = IF rq.caller = "view" /\ okResponse THEN "null"
                             ELSE shouldGenerateLetter
  /\ selectedReport' = IF navigates \/ (viewDone /\ okResponse) THEN NULL
                       ELSE selectedReport
  /\ showDraft' = IF navigates \/ (viewDone /\ okResponse) THEN FALSE ELSE showDraft
  /\ showSavedReports' = IF navigates THEN FALSE ELSE showSavedReports
  /\ isGenerating' = IF navigates \/ viewDone THEN FALSE ELSE isGenerating
  /\ isSubmitting' = IF navigates \/ formDone THEN FALSE ELSE isSubmitting
  /\ validationErrors' = IF navigates THEN {} ELSE validationErrors
  /\ exitMessage' = IF navigates THEN FALSE ELSE exitMessage
  /\ UNCHANGED <<projectDetails, listVars, now, responseText, draftCommunication,
                  call, result, serverVars, isGeneratingLetter, letterRequests,
                  hasConsented>>

\* AppProvider.generateDraftCommunication(reportData) up to the await
generateDraftCommunicationRequest(reportData) ==
  /\ Len(letterRequests) < MaxPending
  /\ isGeneratingLetter' = TRUE
  /\ letterRequests' = Append(letterRequests, reportData)

\* the k-th fetch of generateDraftCommunication settles:
\* setDraftCommunication on success, finally setIsGeneratingLetter(false)
generateDraftCommunicationSettled(k, okResponse) ==
  /\ isGeneratingLetter' = FALSE
  /\ draftCommunication' = IF okResponse THEN GptLetter(letterRequests[k])
                           ELSE draftCommunication
  /\ letterRequests' = RemoveAt(letterRequests, k)
  /\ UNCHANGED <<clientVars, now, responseText, call, result, serverVars, viewVars,
                  isGenerating, isSubmitting, reportRequests, routeVars>>

\* ReportView.handleLetterPromptResponse(wantsDraft)
handleLetterPromptResponseRequest(wantsDraft) ==
  /\ promptShown
  /\ shouldGenerateLetter' = IF wantsDraft THEN "true" ELSE "false"
  /\ IF wantsDraft
       THEN generateDraftCommunicationRequest(report) /\ showDraft' = TRUE
       ELSE UNCHANGED <<isGeneratingLetter, letterRequests, showDraft>>
  /\ UNCHANGED <<clientVars, now, responseText, draftCommunication, call, result,
                  serverVars, selectedReport, showSavedReports, isGenerating,
                  isSubmitting, reportRequests, routeVars>>

\* ReportView.handleCreateDraftLetter (the Letter, Create Draft Letter and
\* Refresh Draft Letter buttons)
handleCreateDraftLetterRequest ==
  /\ mainShown
  /\ IF draftCommunication = NULL
       THEN generateDraftCommunicationRequest(displayReport)
       ELSE UNCHANGED <<isGeneratingLetter, letterRequests>>
  /\ showDraft' = TRUE
  /\ UNCHANGED <<clientVars, now, responseText, draftCommunication, call, result,
                  serverVars, selectedReport, showSavedReports, shouldGenerateLetter,
                  isGenerating, isSubmitting, reportRequests, routeVars>>

\* the Saved button: setShowSavedReports(true)
openSavedReports ==
  /\ mainShown
  /\ showSavedReports' = TRUE
  /\ UNCHANGED <<clientVars, now, responseText, draftCommunication, call, result,
                  serverVars, selectedReport, showDraft, shouldGenerateLetter,
                  busyVars, routeVars>>

\* ReportView.handleLoadReport(savedReports[i])
handleLoadReport(i) ==
  /\ listShown
  /\ i \in 1..Len(savedReports)
  /\ selectedReport' = savedReports[i]
  /\ showSavedReports' = FALSE
  /\ UNCHANGED <<clientVars, now, responseText, draftCommunication, call, result,
                  serverVars, showDraft, shouldGenerateLetter, busyVars, routeVars>>

\* the Report button: setShowDraft(false)
showReportPane ==
  /\ mainShown /\ showDraft
  /\ showDraft' = FALSE
  /\ UNCHANGED <<clientVars, now, responseText, draftCommunication, call, result,
                  serverVars, selectedReport, showSavedReports, shouldGenerateLetter,
                  busyVars, routeVars>>

\* the Current button: setSelectedReport(null)
showCurrentReport ==
  /\ mainShown /\ ~showDraft /\ selectedReport # NULL
  /\ selectedReport' = NULL
  /\ UNCHANGED <<clientVars, now, responseText, draftCommunication, call, result,
                  serverVars, showDraft, showSavedReports, shouldGenerateLetter,
                  busyVars, routeVars>>

(***************************************************************************)
(* Specifications.                                                         *)
(***************************************************************************)
\* no parser call is under test
NoCall == [fn |-> "none"]
NoResult == [fn |-> "none"]

Init ==
  /\ ClientInit
  /\ now = 1
  /\ responseText = <<>>
  /\ ServerInit
  /\ draftCommunication = NULL
  /\ ViewInit /\ RouteAccepted
  /\ call = NoCall
  /\ result = NoResult

\* a deployment with the API credential configured
InitConfigured == Init /\ openaiApiKey

\* the project form and the template generator
Next ==
  \/ \E details \in DetailInputs : updateProjectDetails(details)
  \/ addIssue
  \/ \E index \in 1..MaxIssues, field \in {"description", "actionsTaken"},
        value \in IssueTexts : updateIssue(index, field, value)
  \/ \E index \in 1..MaxIssues : removeIssue(index)
  \/ handleSubmit
  \/ Tick

Spec == InitConfigured /\ [][Next]_vars

\* the report API under requests of all users: well-formed requests, requests
\* with another method, requests without a session
NextServer ==
  \/ \E u \in Users, k \in 1..Len(GenerateBodies) :
        generateReportReceive(u, "POST", u, GenerateBodies[k], FALSE)
        /\ UNCHANGED <<clientVars, now, restVars>>
  \/ \E u \in Users, authorization \in BOOLEAN :
        generateReportFailure(u, authorization) /\ UNCHANGED <<clientVars, now, restVars>>
  \/ \E u \in Users, k \in 1..Len(Completions) :
        generateReportCompletion(u, Completions[k]) /\ UNCHANGED <<clientVars, now, restVars>>
  \/ \E u \in Users : generateReportInsert(u) /\ UNCHANGED <<clientVars, now, restVars>>
  \/ \E u \in Users, r \in SaveReports :
        saveReportReceive(u, "POST", u, r) /\ UNCHANGED <<clientVars, now, restVars>>
  \/ \E u \in Users, k \in 1..Len(InvalidSaveBodies) :
        saveReportReceive(u, "POST", u, InvalidSaveBodies[k])
        /\ UNCHANGED <<clientVars, now, restVars>>
  \/ \E u \in Users : saveReportUpdate(u) /\ UNCHANGED <<clientVars, now, restVars>>
  \/ \E u \in Users : saveReportInsert(u) /\ UNCHANGED <<clientVars, now, restVars>>
  \/ \E u \in Users, reportId \in ReportIds :
        deleteReportHandler(u, "DELETE", u, reportId) /\ UNCHANGED <<clientVars, now, restVars>>
  \/ \E u \in Users :
        getSavedReportsHandler(u, "GET", u) /\ UNCHANGED <<clientVars, now, restVars>>
  \/ \E u \in Users, method \in Methods : \E user \in {u, NoUser} :
        /\ method # "POST" \/ user = NoUser
        /\ generateReportReceive(u, method, user, ValidDetails, FALSE)
        /\ UNCHANGED <<clientVars, now, restVars>>
  \/ \E u \in Users, method \in Methods : \E user \in {u, NoUser} :
        /\ method # "POST" \/ user = NoUser
        /\ saveReportReceive(u, method, user, CHOOSE r \in SaveReports : TRUE)
        /\ UNCHANGED <<clientVars, now, restVars>>
  \/ \E u \in Users, method \in Methods : \E user \in {u, NoUser} :
        /\ method # "DELETE" \/ user = NoUser
        /\ deleteReportHandler(u, method, user, "1")
        /\ UNCHANGED <<clientVars, now, restVars>>
  \/ \E u \in Users, method \in Methods : \E user \in {u, NoUser} :
        /\ method # "GET" \/ user = NoUser
        /\ getSavedReportsHandler(u, method, user)
        /\ UNCHANGED <<clientVars, now, restVars>>

SpecServer == InitConfigured /\ [][NextServer]_vars

\* the checks at the head of the five API handlers: every handler receives
\* requests of every method, with and without a session, while reports are
\* generated, stored and deleted and letters are generated
GateReports == { r \in SaveReports : r.id = "1" }

NextGate ==
  \/ \E u \in Users, method \in Methods : \E user \in {u, NoUser} :
        /\ generateReportReceive(u, method, user, ValidDetails, FALSE)
        /\ UNCHANGED <<clientVars, now, restVars>>
  \/ \E u \in Users :
        generateReportFailure(u, FALSE) /\ UNCHANGED <<clientVars, now, restVars>>
  \/ \E u \in Users :
        generateReportCompletion(u, Completions[1]) /\ UNCHANGED <<clientVars, now, restVars>>
  \/ \E u \in Users : generateReportInsert(u) /\ UNCHANGED <<clientVars, now, restVars>>
  \/ \E u \in Users, method \in Methods, r \in GateReports : \E user \in {u, NoUser} :
        /\ saveReportReceive(u, method, user, r)
        /\ UNCHANGED <<clientVars, now, restVars>>
  \/ \E u \in Users : saveReportUpdate(u) /\ UNCHANGED <<clientVars, now, restVars>>
  \/ \E u \in Users : saveReportInsert(u) /\ UNCHANGED <<clientVars, now, restVars>>
  \/ \E u \in Users, method \in Methods : \E user \in {u, NoUser} :
        /\ deleteReportHandler(u, method, user, "1")
        /\ UNCHANGED <<clientVars, now, restVars>>
  \/ \E u \in Users, method \in Methods : \E user \in {u, NoUser} :
        /\ getSavedReportsHandler(u, method, user)
        /\ UNCHANGED <<clientVars, now, restVars>>
  \/ \E u \in Users, method \in Methods, k \in 1..Len(LetterRequestBodies) :
        \E user \in {u, NoUser} :
          /\ generateLetterReceive(u, method, user, LetterRequestBodies[k])
          /\ UNCHANGED <<clientVars, now, restVars>>
  \/ \E u \in Users :
        generateLetterFailure(u, FALSE) /\ UNCHANGED <<clientVars, now, restVars>>
  \/ \E u \in Users :
        generateLetterCompletion(u, LetterCompletion, 7, LetterDate)
        /\ UNCHANGED <<clientVars, now, restVars>>

SpecGate == InitConfigured /\ [][NextGate]_vars

\* the template variant of the application: generated reports and the saved list
FilledInput ==
  [projectName |-> "Tower", projectDescription |-> "Office block",
   contractType |-> "JCT Standard Building Contract",
   organizationRole |-> "Main Contractor"]

NextSaved ==
  \/ updateProjectDetails(FilledInput)
  \/ \E field \in {"description", "actionsTaken"}, value \in IssueTexts :
        updateIssue(1, field, value)
  \/ handleSubmit
  \/ \E writeOk \in BOOLEAN : handleSaveReport(writeOk)
  \/ \E i \in 1..Len(savedReports), writeOk \in BOOLEAN :
        handleDeleteReport(savedReports[i].id, writeOk)
  \/ Tick

SpecSaved == InitConfigured /\ [][NextSaved]_vars

\* the API variant of the application: AppProvider of AppUser, the handlers,
\* and the requests of the other user
OtherUser == "u2"

NextApp ==
  \/ updateProjectDetails(FilledInput)
  \/ \E value \in IssueTexts : updateIssue(1, "description", value)
  \/ \E user \in {AppUser, NoUser} : handleSubmitFetch(user)
  \/ \E authorization \in BOOLEAN :
        generateReportFailure(AppUser, authorization) /\ UNCHANGED <<clientVars, now, restVars>>
  \/ \E k \in 1..Len(Completions) :
        generateReportCompletion(AppUser, Completions[k]) /\ UNCHANGED <<clientVars, now, restVars>>
  \/ generateReportInsert(AppUser) /\ UNCHANGED <<clientVars, now, restVars>>
  \/ generateReportSettle
  \/ \E writeOk \in BOOLEAN : handleSaveReport(writeOk)
  \/ \E i \in 1..Len(savedReports), writeOk \in BOOLEAN :
        handleDeleteReport(savedReports[i].id, writeOk)
  \/ \E r \in SaveReports :
        saveReportReceive(OtherUser, "POST", OtherUser, r) /\ UNCHANGED <<clientVars, now, restVars>>
  \/ saveReportUpdate(OtherUser) /\ UNCHANGED <<clientVars, now, restVars>>
  \/ saveReportInsert(OtherUser) /\ UNCHANGED <<clientVars, now, restVars>>
  \/ \E reportId \in ReportIds :
        deleteReportHandler(OtherUser, "DELETE", OtherUser, reportId)
        /\ UNCHANGED <<clientVars, now, restVars>>
  \/ Tick

SpecApp == Init /\ [][NextApp]_vars

\* the two report generators applied to drawn inputs
GeneratorDetails ==
  { [projectName |-> "Tower", projectDescription |-> "Office block",
     contractType |-> "JCT Standard Building Contract",
     organizationRole |-> "Main Contractor", issues |-> issues] :
    issues \in UNION { [1..n -> [description : {"late payment", "defects"},
                                 actionsTaken : {"", "notice sent"}]] : n \in 1..MaxIssues } }

InitGenerators ==
  /\ projectDetails \in GeneratorDetails
  /\ report = NULL
  /\ savedReports = <<>>
  /\ storage = <<>>
  /\ isGeneratingReport = FALSE
  /\ validationErrors = {}
  /\ alertMsg = ""
  /\ now = 1
  /\ responseText \in Texts
  /\ ServerInit /\ openaiApiKey
  /\ draftCommunication = NULL
  /\ ViewInit /\ RouteAccepted
  /\ call = NoCall
  /\ result = NoResult

\* the form is submitted to the template generator, or posted to the API,
\* whose completion is responseText
NextGenerators ==
  \/ handleSubmit
  \/ handleSubmitFetch(AppUser)
  \/ generateReportCompletion(AppUser, responseText) /\ UNCHANGED <<clientVars, now, restVars>>
  \/ generateReportInsert(AppUser) /\ UNCHANGED <<clientVars, now, restVars>>
  \/ generateReportSettle

SpecGenerators == InitGenerators /\ [][NextGenerators]_vars

\* the report view with its draft letter: reports of two projects are
\* generated and saved, and letters are requested for the displayed report
OtherProject ==
  [projectName |-> "Bridge", projectDescription |-> "Footbridge",
   contractType |-> "NEC4 Engineering and Construction Contract (ECC)",
   organizationRole |-> "Client/Employer"]

LetterInputs == {FilledInput, OtherProject}

\* values of Math.floor(Math.random() * 1000)
Randoms == {7, 42}

NextLetter ==
  \/ \E details \in LetterInputs : updateProjectDetails(details)
  \/ \E value \in IssueTexts : updateIssue(1, "description", value)
  \/ handleSubmit
  \/ handleSaveReport(TRUE)
  \/ \E i \in 0..Len(savedReports), random \in Randoms :
        handleCreateDraftLetter(i, random)
  \/ \E random \in Randoms : handleLetterPromptResponse(random)
  \/ Tick

SpecLetter == InitConfigured /\ [][NextLetter]_vars

\* the API variant of the application in the browser: the form, the report
\* view with its letter pane, and the fetches in flight.  The form is
\* filled in for one project; localStorage holds the saved report of
\* another project from an earlier session.
ViewInput ==
  [projectName |-> "Tower", projectDescription |-> "Office block",
   contractType |-> "JCT Standard Building Contract",
   organizationRole |-> "Main Contractor",
   issues |-> <<[description |-> "late payment", actionsTaken |-> ""]>>]

\* the report of another project that an earlier session saved: what the
\* API answered for the completion "Detailed Analysis: Late.\nLegal
\* Context: Act.\nRelevant Contract Clauses:\n- Clause 61\nClause
\* Explanations:\n- Notice\nRecommendations:\n- Notify\nPotential Outcomes:
\* Time.\nTimeline Suggestions: Now.\nRisk Assessment: Low.\n"
EarlierReport ==
  [id |-> ToString(0), date |-> 0,
   projectDetails |->
     [projectName |-> "Bridge", projectDescription |-> "Footbridge",
      contractType |-> "NEC4 Engineering and Construction Contract (ECC)",
      organizationRole |-> "Client/Employer",
      issues |-> <<[description |-> "delay", actionsTaken |-> ""]>>],
   analysis |->
     <<[issue |-> "delay", actionsTaken |-> "",
        detailedAnalysis |-> <<"L","a","t","e",".">>,
        legalContext |-> <<"A","c","t",".">>,
        relevantClauses |-> <<<<"C","l","a","u","s","e"," ","6","1">>>>,
        clauseExplanations |->
          <<<<"N","o","t","i","c","e","\n","R","e","c","o","m","m","e","n","d",
              "a","t","i","o","n","s",":">>,
            <<"N","o","t","i","f","y">>>>,
        recommendations |-> <<<<"N","o","t","i","f","y">>>>,
        potentialOutcomes |-> <<"T","i","m","e",".">>,
        timelineSuggestions |-> <<"N","o","w",".">>,
        riskAssessment |-> <<"L","o","w",".">>]>>]

InitView ==
  /\ projectDetails = InitialProjectDetails
  /\ report = NULL
  /\ savedReports = <<EarlierReport>>
  /\ storage = savedReports
  /\ isGeneratingReport = FALSE
  /\ validationErrors = {}
  /\ alertMsg = ""
  /\ now = 1
  /\ responseText = <<>>
  /\ ServerInit /\ openaiApiKey
  /\ draftCommunication = NULL
  /\ call = NoCall
  /\ result = NoResult
  /\ ViewInit /\ RouteAccepted

NextView ==
  \/ location = "/project" /\ updateProjectDetails(ViewInput)
  \/ handleSubmitRequest
  \/ handleRegenerateReportRequest
  \/ \E k \in 1..Len(reportRequests), okResponse \in BOOLEAN :
        generateReportSettled(k, okResponse)
  \/ \E k \in 1..Len(letterRequests), okResponse \in BOOLEAN :
        generateDraftCommunicationSettled(k, okResponse)
  \/ \E wantsDraft \in BOOLEAN : handleLetterPromptResponseRequest(wantsDraft)
  \/ handleCreateDraftLetterRequest
  \/ openSavedReports
  \/ \E i \in 1..Len(savedReports) : handleLoadReport(i)
  \/ showReportPane
  \/ showCurrentReport
  \/ \E path \in {"/project", "/report"} : navigate(path)

SpecView == InitView /\ [][NextView]_vars

\* the routes and the consent: the application starts on the disclaimer
\* page without consent; the form is edited on /project
Paths == {"/", "/project", "/report", "/settings", "/unknown"}

InitConsent ==
  /\ ClientInit
  /\ now = 1
  /\ responseText = <<>>
  /\ ServerInit /\ openaiApiKey
  /\ draftCommunication = NULL
  /\ call = NoCall
  /\ result = NoResult
  /\ ViewInit /\ RouteInit

NextConsent ==
  \/ \E path \in Paths : navigate(path)
  \/ \E path \in Paths : navigateRefused(path)
  \/ handleAccept
  \/ handleDecline
  \/ revokeConsent
  \/ \E details \in DetailInputs : location = "/project" /\ updateProjectDetails(details)
  \/ \E field \in {"description", "actionsTaken"}, value \in IssueTexts :
        location = "/project" /\ updateIssue(1, field, value)

SpecConsent == InitConsent /\ [][NextConsent]_vars

(***************************************************************************)
(* The parser functions applied to drawn inputs: call holds the function   *)
(* and its arguments, result what it returned.                             *)
(***************************************************************************)
MaxItems == 3       \* most items of a rendered list

splitResponseByIssuesCall ==
  /\ call.fn = "splitResponseByIssues"
  /\ result = NoResult
  /\ result' = [fn |-> call.fn, value |-> splitResponseByIssues(call.text, call.issueCount)]
  /\ UNCHANGED <<clientVars, now, responseText, draftCommunication, call, serverVars, uiVars>>

extractSectionCall ==
  /\ call.fn = "extractSection"
  /\ result = NoResult
  /\ result' = [fn |-> call.fn,
                value |-> extractSection(call.text, call.sectionName, call.allowMultiParagraph)]
  /\ UNCHANGED <<clientVars, now, responseText, draftCommunication, call, serverVars, uiVars>>

extractListItemsCall ==
  /\ call.fn = "extractListItems"
  /\ result = NoResult
  /\ result' = [fn |-> call.fn, value |-> extractListItems(call.text, call.sectionName)]
  /\ UNCHANGED <<clientVars, now, responseText, draftCommunication, call, serverVars, uiVars>>

parseGptReportResponseCall ==
  /\ call.fn = "parseGptReportResponse"
  /\ result = NoResult
  /\ result' = [fn |-> call.fn,
                value |-> parseGptReportResponse(call.text, call.projectDetails)]
  /\ UNCHANGED <<clientVars, now, responseText, draftCommunication, call, serverVars, uiVars>>

\* the state every parser specification starts from, but for call
InitCall ==
  /\ ClientInit
  /\ now = 1
  /\ responseText = <<>>
  /\ ServerInit /\ openaiApiKey
  /\ draftCommunication = NULL
  /\ ViewInit /\ RouteAccepted
  /\ result = NoResult

(*------------------------- splitResponseByIssues ------------------------*)
SplitCalls ==
  [fn : {"splitResponseByIssues"}, text : Texts, issueCount : 1..MaxIssues]

InitSplitter == InitCall /\ call \in SplitCalls
NextSplitter == splitResponseByIssuesCall
SpecSplitter == InitSplitter /\ [][NextSplitter]_vars

(*------------------- extractSection, extractListItems -------------------*)
\* the section names parseGptReportResponse asks for
SectionNames ==
  <<"Detailed Analysis", "Legal Context", "Relevant Contract Clauses",
    "Clause Explanations", "Recommendations", "Potential Outcomes",
    "Timeline Suggestions", "Risk Assessment">>

\* A response text is put together from what precedes the section, the
\* label (or nothing), a colon (or none), the gap, the body of the section
\* and what follows it.
Befores == { <<>>, <<"S","u","m","m","a","r","y",".","\n">>, <<"4","."," ">> }
Labels == { <<>>, Chars("Recommendations") }
Colons == { <<>>, <<":">> }
Gaps == { <<"\n">>, <<" ">> }
Bodies == { <<"D","o"," ","X",".">>, <<"D","o"," ","X",".","\n","\n","T","h","e","n"," ","d","o"," ","Y",".">>, <<"d","o"," ","x","\n","a","n","d"," ","y">> }
Follows == { <<>>, <<"\n","L","e","g","a","l"," ","C","o","n","t","e","x","t",":","\n","f","o","o">>, <<"\n","2","."," ","R","i","s","k"," ","A","s","s","e","s","s","m","e","n","t",":"," ","h","i","g","h">>, <<"\n", " ", "\n">> }

SectionParts ==
  [before : Befores, label : Labels, colon : Colons, gap : Gaps,
   body : Bodies, follow : Follows]

\* the text the parts make up
sectionText(parts) ==
  parts.before \o parts.label \o parts.colon \o parts.gap \o parts.body \o parts.follow

SectionCalls ==
  { [fn |-> fn, parts |-> parts, text |-> sectionText(parts),
     sectionName |-> Chars(name), allowMultiParagraph |-> multi,
     projectDetails |-> ValidDetails] :
      fn \in {"extractSection", "extractListItems"},
      parts \in SectionParts,
      name \in {"Recommendations", "Legal Context"},
      multi \in BOOLEAN }
  \cup
  { [fn |-> "parseGptReportResponse", parts |-> parts, text |-> sectionText(parts),
     sectionName |-> <<>>, allowMultiParagraph |-> TRUE,
     projectDetails |-> pd] :
      parts \in SectionParts, pd \in {ValidDetails, SavedDetails} }

InitSections == InitCall /\ call \in SectionCalls
NextSections ==
  \/ extractSectionCall
  \/ extractListItemsCall
  \/ parseGptReportResponseCall
SpecSections == InitSections /\ [][NextSections]_vars

(*---------------------------- rendered lists ----------------------------*)
\* the items of a list and the ways a list is rendered: one of the bullets
\* "-", "*", "@" (U+2022), or numbers "1.", "2.", ...
ListItems == { <<"A">>, <<"B">>, <<"D","o"," ","X">>, <<"7"," ","d","a","y","s">> }
ListStyles == {"-", "*", "@", "number"}

ItemLists == UNION { [1..n -> ListItems] : n \in 1..MaxItems }

\* the marker of the k-th line
marker(style, k) ==
  IF style = "number"
    THEN <<(<<"1", "2", "3", "4", "5", "6", "7", "8", "9">>)[k], ".">>
    ELSE <<style>>

RECURSIVE renderList(_, _, _)
\* the lines "<marker> <item>" of the items from the k-th on, joined by newlines
renderList(items, style, k) ==
  IF k > Len(items) THEN <<>>
  ELSE marker(style, k) \o <<" ">> \o items[k]
       \o (IF k < Len(items) THEN <<"\n">> ELSE <<>>)
       \o renderList(items, style, k + 1)

ListCalls ==
  { [fn |-> "extractListItems", items |-> items, style |-> style,
     text |-> Chars("Recommendations") \o <<":", "\n">>
              \o renderList(items, style, 1) \o follow,
     sectionName |-> Chars("Recommendations")] :
      items \in ItemLists, style \in ListStyles, follow \in {<<>>, <<"\n","L","e","g","a","l"," ","C","o","n","t","e","x","t",":","\n","f","o","o">>} }

InitLists == InitCall /\ call \in ListCalls
NextLists == extractListItemsCall
SpecLists == InitLists /\ [][NextLists]_vars

(*--------------------------- template renderer --------------------------*)
MaxWords == 2       \* most words of a drawn description

\* "Payment" is capitalised; "roof" holds no keyword of any generator
IssueWords ==
  {"Payment", "delay", "variation", "defect", "quality", "design", "change", "roof"}

\* the sequences of at most n different words
WordSeqs(n) ==
  UNION { { w \in [1..k -> IssueWords] : \A i, j \in 1..k : w[i] = w[j] => i = j } :
          k \in 0..n }

RECURSIVE joinWords(_)
\* the words as one text, a space between two words
joinWords(words) ==
  IF words = <<>> THEN <<>>
  ELSE IF Len(words) = 1 THEN Chars(words[1])
  ELSE Chars(words[1]) \o <<" ">> \o joinWords(Tail(words))

TemplateFns ==
  {"generateRelevantClauses", "generateRecommendations", "generateDetailedAnalysis"}
TemplateContracts ==
  {"JCT Standard Building Contract", "NEC4 Engineering and Construction Contract (ECC)",
   "FIDIC Red Book (Construction)", "Bespoke Contract"}
TemplateRoles == {"Main Contractor", "Client/Employer", "Engineer", "Consultant"}

TemplateCalls ==
  { [fn |-> fn, contractType |-> contractType, role |-> role, words |-> words,
     issueDescription |-> joinWords(words)] :
      fn \in TemplateFns, contractType \in TemplateContracts,
      role \in TemplateRoles, words \in WordSeqs(MaxWords) }

generateRelevantClausesCall ==
  /\ call.fn = "generateRelevantClauses"
  /\ result = NoResult
  /\ result' = [fn |-> call.fn,
                value |-> generateRelevantClauses(call.contractType, call.issueDescription)]
  /\ UNCHANGED <<clientVars, now, responseText, draftCommunication, call, serverVars, uiVars>>

generateRecommendationsCall ==
  /\ call.fn = "generateRecommendations"
  /\ result = NoResult
  /\ result' = [fn |-> call.fn,
                value |-> generateRecommendations(call.contractType, call.role,
                                                  call.issueDescription)]
  /\ UNCHANGED <<clientVars, now, responseText, draftCommunication, call, serverVars, uiVars>>

generateDetailedAnalysisCall ==
  /\ call.fn = "generateDetailedAnalysis"
  /\ result = NoResult
  /\ result' = [fn |-> call.fn,
                value |-> generateDetailedAnalysis(call.issueDescription,
                                                   call.contractType, call.role)]
  /\ UNCHANGED <<clientVars, now, responseText, draftCommunication, call, serverVars, uiVars>>

InitTemplate == InitCall /\ call \in TemplateCalls
NextTemplate ==
  \/ generateRelevantClausesCall
  \/ generateRecommendationsCall
  \/ generateDetailedAnalysisCall
SpecTemplate == InitTemplate /\ [][NextTemplate]_vars

(*--------------------------- getDraftRecipient --------------------------*)
getDraftRecipientCall ==
  /\ call.fn = "getDraftRecipient"
  /\ result = NoResult
  /\ result' = [fn |-> call.fn, value |-> getDraftRecipient(call.role)]
  /\ UNCHANGED <<clientVars, now, responseText, draftCommunication, call, serverVars, uiVars>>

getDraftRecipientServerCall ==
  /\ call.fn = "getDraftRecipientServer"
  /\ result = NoResult
  /\ result' = [fn |-> call.fn, value |-> getDraftRecipientServer(call.role)]
  /\ UNCHANGED <<clientVars, now, responseText, draftCommunication, call, serverVars, uiVars>>

\* either copy of the mapping, applied to a role of the catalog
RecipientCalls ==
  { [fn |-> fn, role |-> organizationRoles[k].role, group |-> organizationRoles[k].group] :
      fn \in {"getDraftRecipient", "getDraftRecipientServer"},
      k \in 1..Len(organizationRoles) }

InitRecipient == InitCall /\ call \in RecipientCalls
NextRecipient ==
  \/ getDraftRecipientCall
  \/ getDraftRecipientServerCall
SpecRecipient == InitRecipient /\ [][NextRecipient]_vars

(*------------------------- parseGptLetterResponse -----------------------*)
parseGptLetterResponseCall ==
  /\ call.fn = "parseGptLetterResponse"
  /\ result = NoResult
  /\ result' = [fn |-> call.fn,
                value |-> parseGptLetterResponse(call.text, call.report,
                                                 call.random, call.date)]
  /\ UNCHANGED <<clientVars, now, responseText, draftCommunication, call, serverVars, uiVars>>

\* the parts a letter completion is made of, each of them present or not
LetterHeads == {<<>>, Chars("To: The Architect") \o <<"\n">>, Chars("To:") \o <<" ", "\n">>}
LetterSubjects == {<<>>, Chars("Subject: Notice") \o <<"\n">>}
LetterGreetings ==
  {<<>>, Chars("Dear Sir,") \o <<"\n">>, Chars("Dear Ms Smith") \o <<"\n">>,
   Chars("Dear ,") \o <<"\n">>}
LetterBodies == {Chars("Please pay.") \o <<"\n">>}
LetterClosings ==
  {<<>>, Chars("Yours sincerely,") \o <<"\n">>, Chars("Kind regards"),
   Chars("Regards") \o <<"\n">>}
LetterSignatures == {<<>>, Chars("J Doe") \o <<"\n">> \o Chars("Director"), <<" ", "\n">>}

LetterTexts ==
  { head \o subject \o greeting \o body \o closing \o signature :
      head \in LetterHeads, subject \in LetterSubjects, greeting \in LetterGreetings,
      body \in LetterBodies, closing \in LetterClosings, signature \in LetterSignatures }

LetterCalls ==
  { [fn |-> "parseGptLetterResponse", text |-> text,
     report |-> [projectDetails |-> pd, analysis |-> <<>>],
     random |-> random, date |-> [year |-> 2025, formatted |-> "1 May 2025"]] :
      text \in LetterTexts, pd \in LetterInputs, random \in Randoms }

InitLetterParser == InitCall /\ call \in LetterCalls
NextLetterParser == parseGptLetterResponseCall
SpecLetterParser == InitLetterParser /\ [][NextLetterParser]_vars

(*------------------- the Analysis of one issue, both generators ---------*)
issueTemplateCall ==
  /\ call.fn = "issueTemplate"
  /\ result = NoResult
  /\ result' = [fn |-> call.fn,
                value |-> <<issueTemplate(call.projectDetails.issues[1],
                                          call.projectDetails)>>]
  /\ UNCHANGED <<clientVars, now, responseText, draftCommunication, call, serverVars, uiVars>>

\* descriptions, each with the categories whose name it holds
Descriptions ==
  { <<"", {}>>, <<"roof", {}>>, <<"change", {}>>,
    <<"Payment", {"payment"}>>,
    <<"Payment has not been certified on time", {"payment"}>>,
    <<"Payment delay", {"payment", "delay"}>>,
    <<"delay Payment", {"payment", "delay"}>>,
    <<"delay", {"delay"}>>, <<"variation", {"variation"}>>,
    <<"variation delay", {"variation", "delay"}>>,
    <<"defect", {"defect"}>>, <<"quality", {"defect"}>>, <<"design", {"design"}>>,
    <<"design defect", {"design", "defect"}>>,
    <<"defect design", {"design", "defect"}>> }

AnalysisContracts == TemplateContracts \cup {"JCT Design and Build Contract"}

\* a list section of a completion: heading, colon, one item on a line each
listSection(name, items) ==
  Chars(name) \o <<":", "\n">> \o renderList(items, "-", 1) \o <<"\n">>

ClauseSections ==
  {<<>>, listSection("Relevant Contract Clauses", <<Chars("Clause 4.8"), Chars("Clause 4.9")>>)}
ExplanationSections ==
  {<<>>,
   listSection("Clause Explanations", <<Chars("Clause 4.8 sets the dates")>>),
   listSection("Clause Explanations",
               <<Chars("Clause 4.8 sets the dates"), Chars("Clause 4.9 gives the notices")>>)}
RecommendationSections ==
  {<<>>, listSection("Recommendations", <<Chars("Do X")>>)}

AnalysisCalls ==
  { [fn |-> "issueTemplate", names |-> d[2], text |-> <<>>,
     projectDetails |->
       [projectName |-> "Tower", projectDescription |-> "Office block",
        contractType |-> contractType, organizationRole |-> role,
        issues |-> <<[description |-> d[1], actionsTaken |-> ""]>>]] :
      d \in Descriptions, contractType \in AnalysisContracts, role \in TemplateRoles }
  \cup
  { [fn |-> "parseGptReportResponse", names |-> {},
     text |-> clauses \o explanations \o recommendations,
     projectDetails |-> pd] :
      clauses \in ClauseSections, explanations \in ExplanationSections,
      recommendations \in RecommendationSections, pd \in {ValidDetails, SavedDetails} }

InitAnalysis == InitCall /\ call \in AnalysisCalls
NextAnalysis ==
  \/ issueTemplateCall
  \/ parseGptReportResponseCall
SpecAnalysis == InitAnalysis /\ [][NextAnalysis]_vars

(***************************************************************************)
(* Properties.                                                             *)
(***************************************************************************)
SavedOk == "Report saved successfully"
GenerateFailed == "An error occurred while generating the report. Please try again."

\* the analysis of r is index-aligned with the issues r was generated from
Aligned(r) ==
  /\ Len(r.analysis) = Len(r.projectDetails.issues)
  /\ \A i \in 1..Len(r.projectDetails.issues) :
       /\ i <= Len(r.analysis)
       /\ r.analysis[i].issue = r.projectDetails.issues[i].description
       /\ r.analysis[i].actionsTaken = r.projectDetails.issues[i].actionsTaken

\* C1: every generated report (the template generator's report, the report a
\* 200 answer of the generateReport handler carries, the row it stored) has
\* one analysis per issue, in the order of the issues, with the issue's
\* description and actionsTaken, whatever the completion text is.
C1_AnalysisAligned ==
  /\ report # NULL => Aligned(report)
  /\ (resp.op = "generateReport" /\ resp.status = 200) => Aligned(resp.body)
  /\ \A i \in 1..Len(table) : Aligned(table[i])

\* a completion with more issue markers than issues has been parsed and answered
C1_Witness ==
  /\ resp.op = "generateReport" /\ resp.status = 200
  /\ Len(resp.body.projectDetails.issues) = 2
  /\ Len(resp.body.analysis) = 2
  /\ Len(matchAll(responseText, 0)) = 3

IdsUnique(s) == \A i, j \in 1..Len(s) : s[i].id = s[j].id => i = j

\* C2: no two saved reports and no two rows of the table share an id; a save
\* of an id already stored for the same owner keeps the number of entries and
\* leaves the newly saved content in the entry.
C2_UniqueIdsUpsert ==
  /\ [](IdsUnique(savedReports) /\ IdsUnique(table))
  /\ [][ /\ ( /\ \E writeOk \in BOOLEAN : handleSaveReport(writeOk)
              /\ \E i \in 1..Len(savedReports) : savedReports[i].id = report.id )
            => /\ Len(savedReports') = Len(savedReports)
               /\ \A i \in 1..Len(savedReports) :
                    savedReports'[i] = IF savedReports[i].id = report.id
                                         THEN report ELSE savedReports[i]
         /\ \A u \in Users :
              ( /\ saveReportUpdate(u)
                /\ \E i \in 1..Len(table) :
                     table[i].id = req[u].report.id /\ table[i].userId = u )
              => /\ Len(table') = Len(table)
                 /\ \A i \in 1..Len(table) :
                      table'[i] = IF table[i].id = req[u].report.id
                                    THEN rowOf(req[u].report, u) ELSE table[i]
       ]_vars

\* the other user's second save of id "1" has been answered, the list of
\* AppProvider holds the saved current report
C2_Witness ==
  /\ resp.op = "saveReport" /\ resp.status = 200 /\ resp.user = OtherUser
  /\ Len(table) = 2
  /\ \E i \in 1..Len(table) :
       table[i].id = "1" /\ table[i].userId = OtherUser /\ table[i].analysis # <<>>
  /\ Len(savedReports) = 1 /\ savedReports[1] = report /\ alertMsg = SavedOk

\* C3: a saveReport request for an id stored under another user is answered
\* 403 and changes nothing in the table.
C3_ForeignSaveRejected ==
  [][ \A u \in Users, r \in SaveReports :
        ( /\ saveReportReceive(u, "POST", u, r)
          /\ \E i \in 1..Len(table) : table[i].id = r.id /\ table[i].userId # u )
        => /\ resp'.op = "saveReport" /\ resp'.user = u /\ resp'.status = 403
           /\ table' = table
           /\ req'[u].pc = "idle"
    ]_vars

\* a save was refused while the row of the other user is still stored
C3_Witness ==
  /\ resp.op = "saveReport" /\ resp.status = 403
  /\ \E i \in 1..Len(table) : table[i].userId # resp.user /\ table[i].id = "1"
  /\ req[resp.user].pc = "idle"

\* C4: a deleteReport request naming a report of another user is answered with
\* an authorization error, not with a success.
C4_ForeignDeleteRejected ==
  [][ \A u \in Users, reportId \in ReportIds :
        ( /\ deleteReportHandler(u, "DELETE", u, reportId)
          /\ \E i \in 1..Len(table) : table[i].id = reportId /\ table[i].userId # u )
        => resp'.status = 403
    ]_vars

\* C5: the answer of getSavedReports to user u holds exactly the rows of the
\* table whose userId is u.
C5_OwnReportsOnly ==
  [][ \A u \in Users :
        getSavedReportsHandler(u, "GET", u)
        => /\ resp'.status = 200
           /\ \A k \in 1..Len(resp'.body) : resp'.body[k].userId = u
           /\ \A i \in 1..Len(table) :
                table[i].userId = u => \E k \in 1..Len(resp'.body) : resp'.body[k] = table[i]
    ]_vars

\* a user with a stored report was answered while the other user has one too
C5_Witness ==
  /\ resp.op = "getSavedReports" /\ resp.status = 200
  /\ Len(resp.body) = 1
  /\ Len(table) = 2
  /\ \E i \in 1..Len(table) : table[i].userId # resp.user
  /\ \E i \in 1..Len(table) : table[i] = resp.body[1]

\* C6: when the credential is missing or the generation call fails, the
\* handler answers with an error status and stores no row; AppProvider's
\* generateReport then rejects (the caller alerts), keeps report, and sends
\* no further request.
C6_GenerationFailurePropagates ==
  [][ /\ ( \/ \E authorization \in BOOLEAN : generateReportFailure(AppUser, authorization)
           \/ /\ ~openaiApiKey
              /\ generateReportReceive(AppUser, "POST", AppUser, projectDetails, TRUE) )
         => /\ resp'.op = "generateReport" /\ resp'.status \notin 200..299
            /\ fetched'.status = resp'.status
            /\ table' = table
            /\ req'[AppUser].pc = "idle"
      /\ ( generateReportSettle /\ fetched.status # 200 )
         => /\ report' = report
            /\ alertMsg' = GenerateFailed
            /\ ~isGeneratingReport'
            /\ req' = req /\ table' = table
    ]_vars

\* a generation after a successful one failed upstream and was reported
C6_Witness ==
  /\ resp.op = "generateReport" /\ resp.status = 500 /\ resp.user = AppUser
  /\ fetched = NoResponse /\ ~isGeneratingReport
  /\ alertMsg = GenerateFailed
  /\ report # NULL
  /\ Len(table) = 1

\* C7: no generation call is made and no report is produced for project
\* details with a missing required field.
C7_NoGenerationForInvalid ==
  /\ \A u \in Users :
       req[u].pc = "openai" => validateForm(req[u].projectDetails) = {}
  /\ report # NULL => validateForm(report.projectDetails) = {}
  /\ \A i \in 1..Len(table) : validateForm(table[i].projectDetails) = {}

FormEdit ==
  \/ \E details \in DetailInputs : updateProjectDetails(details)
  \/ addIssue
  \/ \E index \in 1..MaxIssues, field \in {"description", "actionsTaken"},
        value \in IssueTexts : updateIssue(index, field, value)
  \/ \E index \in 1..MaxIssues : removeIssue(index)

\* C8: once a report exists, editing the form leaves the report as it is.
C8_ReportSnapshot ==
  [][ (report # NULL /\ FormEdit) => report' = report ]_vars

\* the form was edited after the report was generated
C8_Witness ==
  /\ report # NULL
  /\ Len(projectDetails.issues) = 2
  /\ Len(report.projectDetails.issues) = 1
  /\ projectDetails.issues[1].description # report.projectDetails.issues[1].description

\* C9: a newly generated report that differs from the previous one has a
\* different id, and saving a report removes no other report from the list.
C9_DistinctIds ==
  [][ /\ (report # NULL /\ report' # report) => report'.id # report.id
      /\ (\E writeOk \in BOOLEAN : handleSaveReport(writeOk))
         => \A i \in 1..Len(savedReports) :
              savedReports[i] = report
              \/ \E j \in 1..Len(savedReports') : savedReports'[j] = savedReports[i]
    ]_vars

\* C10: the user is told that the report was saved only when the saved
\* reports were written to localStorage.
C10_SaveFailureSurfaced ==
  [][ (\E writeOk \in BOOLEAN : handleSaveReport(writeOk) /\ alertMsg' = SavedOk)
      => \E i \in 1..Len(storage') : storage'[i] = report
    ]_vars

SameLetter(a, b) ==
  /\ a.to = b.to
  /\ a.subject = b.subject
  /\ a.greeting = b.greeting
  /\ a.body = b.body

\* C12: the letter generateDraftCommunication builds for a displayed report
\* has the to, subject, greeting and body of the letter built for the same
\* report while the form still holds the details the report was generated
\* from, whatever the form holds now.
C12_LetterFromReport ==
  [][ \A random \in Randoms : \A i \in 0..Len(savedReports) :
        LET shown == IF i = 0 THEN report ELSE savedReports[i] IN
        (shown # NULL /\ generateDraftCommunication(shown, random))
        => SameLetter(draftCommunication',
                      assembleDraft(shown, shown.projectDetails, random, now))
    ]_vars

\* C13: splitResponseByIssues(text, issueCount) returns exactly issueCount
\* elements, however many issue markers the text holds.
C13_SplitExactCount ==
  result.fn = "splitResponseByIssues" => Len(result.value) = call.issueCount

\* no section name of the parser occurs in the text
NoSectionIn(text) ==
  \A k \in 1..Len(SectionNames) : ~includes(text, Chars(SectionNames[k]))

\* C14: on a text that does not contain the section name extractSection
\* returns the empty string and extractListItems the empty list, and
\* parseGptReportResponse returns one Analysis per issue whose extracted text
\* fields are empty.
C14_AbsentSectionEmpty ==
  /\ (result.fn \in {"extractSection", "extractListItems"}
      /\ ~includes(call.text, call.sectionName))
     => result.value = <<>>
  /\ (result.fn = "parseGptReportResponse" /\ NoSectionIn(call.text))
     => /\ Len(result.value) = Len(call.projectDetails.issues)
        /\ \A i \in 1..Len(result.value) :
             /\ result.value[i].issue = call.projectDetails.issues[i].description
             /\ result.value[i].detailedAnalysis = <<>>
             /\ result.value[i].legalContext = <<>>
             /\ result.value[i].clauseExplanations = <<>>
             /\ result.value[i].potentialOutcomes = <<>>
             /\ result.value[i].timelineSuggestions = <<>>
             /\ result.value[i].riskAssessment = <<>>

\* a text with a section of another name, and none of the parser's names,
\* was parsed for two issues
C14_Witness ==
  /\ result.fn = "parseGptReportResponse"
  /\ NoSectionIn(call.text)
  /\ call.parts.label = <<>> /\ call.parts.follow = <<"\n", " ", "\n">>
  /\ Len(call.text) > 5
  /\ Len(result.value) = 2
  /\ result.value[2].legalContext = <<>>

C16_BulletedItemsKept ==
  (result.fn = "extractListItems" /\ call.style # "number")
  => result.value = call.items

\* a bulleted list with an item occurring twice, followed by the next
\* section, has been extracted
C16_Witness ==
  /\ result.fn = "extractListItems" /\ call.style = "@"
  /\ Len(call.items) = 3
  /\ call.items[1] = call.items[3] /\ call.items[1] # call.items[2]
  /\ includes(call.text, Chars("Legal Context"))
  /\ Len(result.value) = 3

\* C17: a numbered list of k items that start with a capital letter comes
\* back as k elements, one per item.
C17_NumberedItemsAll ==
  (result.fn = "extractListItems" /\ call.style = "number"
   /\ \A k \in 1..Len(call.items) : isUpper(call.items[k][1]))
  => /\ Len(result.value) = Len(call.items)
     /\ result.value = call.items

\* what the called generator returns for a description made of one keyword
ByKeyword(keyword) ==
  CASE call.fn = "generateRelevantClauses" ->
         generateRelevantClauses(call.contractType, Chars(keyword))
    [] call.fn = "generateRecommendations" ->
         generateRecommendations(call.contractType, call.role, Chars(keyword))
    [] call.fn = "generateDetailedAnalysis" ->
         generateDetailedAnalysis(Chars(keyword), call.contractType, call.role)

\* the contract form has a clause list for each category
HasCategoryLists ==
  call.fn = "generateRelevantClauses" => call.contractType # "Bespoke Contract"

\* the payment clauses, a payment recommendation first, the payment analysis
PaymentOutput(out) ==
  CASE call.fn = "generateRelevantClauses" ->
         out[1] = Chars(CASE call.contractType = "JCT Standard Building Contract" -> "Clause 4.8"
                          [] call.contractType = "NEC4 Engineering and Construction Contract (ECC)" -> "Clause 50.1"
                          [] call.contractType = "FIDIC Red Book (Construction)" -> "Clause 14.3"
                          [] OTHER -> "General Contract Provisions")
    [] call.fn = "generateRecommendations" ->
         out[1] \in {"For your specific payment issue, submit a formal ...",
                     "For your specific payment issue, review the application ...",
                     "For your specific payment issue, ensure all processes ..."}
    [] call.fn = "generateDetailedAnalysis" ->
         out = "Based on the specific payment issue you've described"

\* the general clauses, the contract-interpretation recommendations and analysis
GenericOutput(out) ==
  CASE call.fn = "generateRelevantClauses" ->
         out[1] = Chars(CASE call.contractType = "JCT Standard Building Contract" -> "Clause 1.7"
                          [] call.contractType = "NEC4 Engineering and Construction Contract (ECC)" -> "Clause 10.1"
                          [] call.contractType = "FIDIC Red Book (Construction)" -> "Clause 1.9"
                          [] OTHER -> "General Contract Provisions")
    [] call.fn = "generateRecommendations" ->
         out[1] = "For your specific contractual issue, review all relevant ..."
    [] call.fn = "generateDetailedAnalysis" ->
         out = "Based on the specific contractual issue you've described"

\* C18: each generator of the template renderer tests the lowercased
\* description for payment before delay, for delay before variation, and for
\* these before defect/quality and design, and the first match decides: a
\* description with 'payment' gets the payment output whatever else it holds
\* and wherever the word stands, one with 'delay' and no 'payment' the delay
\* output, one with 'variation' and neither of them the variation output; the
\* defect/quality and design outputs appear only when none of the three is
\* present; a description without any keyword gets the generic output.
C18_FirstCategoryWins ==
  (call.fn \in TemplateFns /\ result # NoResult) =>
    LET words == { call.words[k] : k \in 1..Len(call.words) }
        out == result.value
    IN /\ "Payment" \in words =>
            /\ out = ByKeyword("payment")
            /\ PaymentOutput(out)
            /\ HasCategoryLists => out # ByKeyword("delay")
       /\ ("Payment" \notin words /\ "delay" \in words) =>
            /\ out = ByKeyword("delay")
            /\ HasCategoryLists => out # ByKeyword("variation")
       /\ (words \cap {"Payment", "delay"} = {} /\ "variation" \in words) =>
            out = ByKeyword("variation")
       /\ (words \cap {"Payment", "delay", "variation"} # {} /\ HasCategoryLists) =>
            out \notin {ByKeyword("defect"), ByKeyword("quality"), ByKeyword("design")}
       /\ (words \subseteq {"defect", "quality", "roof"} /\ ~(words \subseteq {"roof"})) =>
            out = ByKeyword("defect")
       /\ (words \subseteq {"design", "roof"} /\ "design" \in words) =>
            out = ByKeyword("design")
       /\ words \subseteq {"roof"} =>
            /\ out = ByKeyword("")
            /\ GenericOutput(out)

\* the clauses of a JCT contract were generated for a description that names
\* the delay before the payment
C18_Witness ==
  /\ call.fn = "generateRelevantClauses"
  /\ result # NoResult
  /\ call.contractType = "JCT Standard Building Contract"
  /\ call.words = <<"delay", "Payment">>
  /\ result.value[1] = Chars("Clause 4.8")

\* the recipient the mapping is said to give for a role of the catalog
RecipientOf(role) ==
  IF role \in {"Contract Administrator", "Architect"} THEN "The Relevant Party"
  ELSE IF role \in {"Client/Employer", "Client Representative", "Employer's Agent"}
    THEN "The Contractor"
  ELSE IF role \in {"Main Contractor", "Design and Build Contractor",
                    "Principal Contractor", "Management Contractor"}
    THEN "The Employer/Client"
  ELSE IF role \in {"Domestic Sub-contractor", "Nominated Sub-contractor",
                    "Named Sub-contractor", "Specialist Sub-contractor"}
    THEN "The Main Contractor"
  ELSE "The Contract Administrator"

C20_LetterPartsNonEmpty ==
  (call.fn = "parseGptLetterResponse" /\ result # NoResult) =>
    LET letter == result.value
        pd == call.report.projectDetails
        has(word) == includes(call.text, Chars(word))
    IN /\ DOMAIN letter = {"to", "subject", "greeting", "body", "closing", "sender"}
       /\ \A f \in {"to", "subject", "greeting", "closing", "sender"} : letter[f] # <<>>
       /\ ~has("To:") => letter.to = Chars(RecipientOf(pd.organizationRole))
       /\ ~has("Subject:") =>
            letter.subject = Chars(pd.projectName) \o <<" ", "-", " ">>
                             \o Chars(pd.contractType) \o <<" ", "-", " ">>
                             \o Chars("Contract Notice")
       /\ ~has("Dear") => letter.greeting = Chars("Dear") \o <<" ">> \o letter.to \o <<",">>
       /\ (\A k \in 1..Len(closingPhrases) : ~has(closingPhrases[k])) =>
            /\ letter.closing = Chars("Yours faithfully,")
            /\ SubSeq(letter.sender, 1, 6) = Chars("[NAME]")

\* a completion that is the body alone was parsed: every other part is its default
C20_Witness ==
  /\ call.fn = "parseGptLetterResponse"
  /\ result # NoResult
  /\ call.text = Chars("Please pay.") \o <<"\n">>
  /\ result.value.to = Chars("The Employer/Client")
  /\ result.value.closing = Chars("Yours faithfully,")

\* the Analyses returned by the generator that was called
AnalysisResult ==
  call.fn \in {"issueTemplate", "parseGptReportResponse"} /\ result # NoResult

\* C21: every generated Analysis, of the template generator and of the
\* parser of the completion, has at least one relevant clause and at least
\* one recommendation; the template generator lists 'Clause 4.8' for a JCT
\* contract and a description that holds 'payment'.
C21_ClausesAndRecommendations ==
  AnalysisResult =>
    \A i \in 1..Len(result.value) :
      LET a == result.value[i] IN
      /\ Len(a.relevantClauses) > 0
      /\ Len(a.recommendations) > 0
      /\ \A k \in 1..Len(a.relevantClauses) : a.relevantClauses[k] # <<>>
      /\ (/\ call.fn = "issueTemplate"
          /\ "payment" \in call.names
          /\ call.projectDetails.contractType
               \in {"JCT Standard Building Contract", "JCT Design and Build Contract"})
         => \E k \in 1..Len(a.relevantClauses) : a.relevantClauses[k] = Chars("Clause 4.8")

\* a completion without clauses and recommendations was parsed for a JCT
\* contract and a payment issue: the fallbacks stand in
C21_Witness ==
  /\ call.fn = "parseGptReportResponse"
  /\ result # NoResult
  /\ call.text = <<>>
  /\ call.projectDetails = ValidDetails
  /\ result.value[1].relevantClauses[1] = Chars("Clause 4.8")
  /\ Len(result.value[1].recommendations) = 1

\* the explanation is the one of the clause: the template starts it with the
\* clause, a completion names the clause in it
ExplanationOf(explanation, clause) ==
  IF call.fn = "issueTemplate" THEN explanation[1] = clause
  ELSE includes(explanation, clause)

\* C22: in every generated Analysis with explanations of clauses there are
\* as many explanations as relevant clauses and the i-th explanation is the
\* one of the i-th clause, for the template generator and for the parser,
\* the fallback clause list included.
C22_ExplanationsAligned ==
  AnalysisResult =>
    \A i \in 1..Len(result.value) :
      LET a == result.value[i] IN
      Len(a.clauseExplanations) > 0 =>
        /\ Len(a.clauseExplanations) = Len(a.relevantClauses)
        /\ \A k \in 1..Len(a.clauseExplanations) :
             ExplanationOf(a.clauseExplanations[k], a.relevantClauses[k])

\* the category a field of a template Analysis was produced for
CategoryOfAnalysis(text) ==
  CASE text = "Based on the specific payment issue you've described" -> "payment"
    [] text = "Based on the specific delay issue you've described" -> "delay"
    [] text = "Based on the specific variation issue you've described" -> "variation"
    [] text = "Based on the specific design issue you've described" -> "design"
    [] text = "Based on the specific quality/defect issue you've described" -> "defect"
    [] OTHER -> "generic"
CategoryOfContext(blocks) ==
  CASE blocks[3] = "Relevant Case Law: For your specific payment issue ..." -> "payment"
    [] blocks[3] = "Relevant Case Law: For your specific delay issue ..." -> "delay"
    [] blocks[3] = "Relevant Case Law: For your specific variation issue ..." -> "variation"
    [] blocks[3] = "Relevant Case Law: For your specific design issue ..." -> "design"
    [] blocks[3] = "Relevant Case Law: For your specific quality issue ..." -> "defect"
    [] OTHER -> "generic"
CategoryOfOutcomes(blocks) ==
  CASE blocks[2] = "1. Negotiated Resolution" -> "payment"
    [] blocks[2] = "1. Extension of Time Award" -> "delay"
    [] blocks[2] = "1. Valuation Agreement" -> "variation"
    [] blocks[2] = "1. Design Responsibility Determination" -> "design"
    [] blocks[2] = "1. Remedial Works Agreement" -> "defect"
    [] OTHER -> "generic"
CategoryOfTimeline(blocks) ==
  CASE blocks[2] = "Review your contract payment terms and notice requirements ..." -> "payment"
    [] blocks[2] = "Document the specific cause and extent of delay ..." -> "delay"
    [] blocks[2] = "Clarify whether your specific variation has been properly instructed ..." -> "variation"
    [] blocks[2] = "Document the specific defects thoroughly ..." -> "defect"
    [] OTHER -> "generic"
CategoryOfRisk(blocks) ==
  CASE blocks[3] = "Direct recovery: The disputed payment amount ..." -> "payment"
    [] blocks[3] = "Time relief: Avoidance of delay damages ..." -> "delay"
    [] blocks[3] = "Direct payment: Recovery of costs for additional work ..." -> "variation"
    [] OTHER -> "generic"
\* the keyword for which the generator gives this list, "" for the generic list
CategoryOfRecommendations(list, pd) ==
  CHOOSE c \in {"payment", "delay", "variation", "defect", "design", ""} :
    list = generateRecommendations(pd.contractType, pd.organizationRole, Chars(c))

\* C28: all the fields of one template Analysis come from the same issue
\* category, whatever the description, the contract type and the role: the
\* analysis, the legal context, the recommendations, the outcomes, the
\* timeline and the risk assessment name one category, or all are generic.
C28_OneCategoryPerAnalysis ==
  (call.fn = "issueTemplate" /\ result # NoResult) =>
    LET a == result.value[1]
        byRecommendations ==
          CategoryOfRecommendations(a.recommendations, call.projectDetails)
        category == IF byRecommendations = "" THEN "generic" ELSE byRecommendations
    IN /\ CategoryOfAnalysis(a.detailedAnalysis) = category
       /\ CategoryOfContext(a.legalContext) = category
       /\ CategoryOfOutcomes(a.potentialOutcomes) = category
       /\ CategoryOfTimeline(a.timelineSuggestions) = category
       /\ CategoryOfRisk(a.riskAssessment) = category

\* C23: when the text holds at least issueCount issue markers, the slices
\* splitResponseByIssues hands to the extraction are cut at the first
\* issueCount markers only: slice i runs from the i-th marker to the next
\* one and slice issueCount runs from its marker to the end of the text.
C23_SlicesAtFirstMarkers ==
  (result.fn = "splitResponseByIssues"
     /\ Len(matchAll(call.text, 0)) >= call.issueCount) =>
    LET matches == matchAll(call.text, 0) IN
    /\ Len(result.value) >= call.issueCount
    /\ \A i \in 1..call.issueCount :
         result.value[i] =
           trimText(substring(call.text, matches[i],
                              IF i < call.issueCount THEN matches[i + 1]
                              ELSE Len(call.text)))

\* the position after the header lines (To: and Subject:) the text starts with
RECURSIVE headerEnd(_, _)
headerEnd(t, p) ==
  IF indexOf(t, Chars("To:"), p) = p \/ indexOf(t, Chars("Subject:"), p) = p
    THEN LET lineEnd == indexOf(t, <<"\n">>, p) IN
         IF lineEnd = -1 THEN Len(t) ELSE headerEnd(t, lineEnd + 1)
    ELSE p

\* the position after the salutation (the 'Dear' line up to its comma or
\* its end), or after the header lines when the text has no salutation
salutationEnd(t) ==
  LET p == indexOf(t, Chars("Dear"), 0) IN
  IF p = -1 THEN headerEnd(t, 0)
  ELSE LET r == skipUntil(t, p + 4, {",", "\n"}) IN
       IF r < Len(t) THEN r + 1 ELSE r

\* the text between the salutation and the earliest closing phrase
bodyBetween(t) ==
  LET found == findClosing(t, 1, [closingIndex |-> -1, closingPhrase |-> ""]) IN
  trimText(substring(t, salutationEnd(t),
                     IF found.closingIndex # -1 THEN found.closingIndex ELSE Len(t)))

\* C24: the body parseGptLetterResponse returns is exactly the part of the
\* completion after the salutation line (after the header lines when there
\* is no salutation) and before the earliest closing phrase, or up to the
\* end of the text when there is no closing phrase.
C24_BodyBetweenSalutationAndClosing ==
  result.fn = "parseGptLetterResponse" => result.value.body = bodyBetween(call.text)

\* C25: whenever the report view shows the draft-letter pane with a draft,
\* the draft is the letter of the report displayed (the loaded saved report,
\* otherwise the current report).
C25_DraftOfDisplayedReport ==
  (mainShown /\ showDraft /\ draftCommunication # NULL)
    => draftCommunication = GptLetter(displayReport)

\* C27: isGeneratingReport is true exactly while a generateReport fetch is
\* in flight, and isGeneratingLetter exactly while a
\* generateDraftCommunication fetch is in flight.
C27_BusyWhileInFlight ==
  /\ isGeneratingReport <=> Len(reportRequests) > 0
  /\ isGeneratingLetter <=> Len(letterRequests) > 0

\* C30: the project form, the report view and the settings page are rendered
\* only while hasConsented is true: hasConsented starts false, it becomes
\* true only by the acceptance on the disclaimer page (giveConsent followed
\* by the navigation to /project), and whenever it is false (initially,
\* after declining, after revokeConsent) the page shown is the disclaimer
\* page, whatever path was navigated to.
C30_ProtectedOnlyWithConsent ==
  /\ ~hasConsented
  /\ [](location \in ProtectedPaths => hasConsented)
  /\ [](~hasConsented => location = "/")
  /\ [][(~hasConsented /\ hasConsented') => (location = "/" /\ location' = "/project")]_vars

\* consent was given, the form was edited, consent was revoked: the
\* disclaimer page is shown again
C30_Witness ==
  /\ ~hasConsented
  /\ location = "/"
  /\ projectDetails # InitialProjectDetails

\* C26: under every interleaving of the saveReport, deleteReport and
\* generateReport requests of the users, the update step of a saveReport
\* request by user u leaves every row whose userId is not u at that moment
\* as it was (projectDetails, analysis and date).
C26_UpdateChangesOwnRowsOnly ==
  [][ \A u \in Users :
        (req[u].pc = "update" /\ req'[u].pc = "idle")
        => /\ Len(table') = Len(table)
           /\ \A i \in 1..Len(table) :
                table[i].userId # u
                => /\ table'[i].projectDetails = table[i].projectDetails
                   /\ table'[i].analysis = table[i].analysis
                   /\ table'[i].date = table[i].date
    ]_vars

====
